---------------------------- MODULE Spec2Model ----------------------------
(***************************************************************************)
(* Obstruction detection and avoidance of EDAPGui.                         *)
(*                                                                         *)
(*   SpecClassify : the occlusion classification of                        *)
(*                  Test_Routines.test_occlusion_logic (the mirror of      *)
(*                  is_destination_occluded), run on one frame.            *)
(*   Spec         : SupercruiseAvoidance.execute with its attempts         *)
(*                  (_attempt_maneuver, _acquire_escape_heading,           *)
(*                  _fallback_escape), one step per poll or phase.         *)
(*                                                                         *)
(* Units.  Match scores and thresholds are small naturals.  Compass        *)
(* confidences, compass coordinates, and the times of the escape-heading   *)
(* loop are in tenths (0.4 is 4, 0.1 s is 1).  Fly-away durations are in   *)
(* seconds as in the configuration; the fly-away clock counts half         *)
(* seconds (sleep(1) is 2, sleep(2.5) is 5).  Yaw angles are in half       *)
(* degrees (15 degrees is 30) so that yaw_increment * 1.5 is a natural.    *)
(***************************************************************************)
EXTENDS Integers, Sequences, FiniteSets

VARIABLES
    \* ---- classifier (test_occlusion_logic) ----
    cpc,                    \* position in test_occlusion_logic
    frame,                  \* what the matcher and the detector give on this frame
    target_val,             \* max of the two solid-target passes
    target_visible,
    occ_val,                \* max of the two occluded-target passes
    occ_template_detected,
    circle_found,
    circle_score,
    ring_calls,             \* number of detect_dashed_circle calls made
    occ_calls,              \* number of occluded-template match calls made
    final_occluded,
    reason,
    cret,                   \* the returned tuple
    \* ---- supercruise avoidance ----
    pc,                     \* position in execute / _attempt_maneuver
    config,                 \* ap.config, read only
    i,                      \* loop index of execute
    att,                    \* arguments of the running _attempt_maneuver call
    calls,                  \* arguments of every _attempt_maneuver call so far
    nav,                    \* last get_nav_offset reading
    acq_elapsed,            \* time.time() - start_time in _acquire_escape_heading
    elapsed,                \* the local elapsed of the last poll
    gate_satisfied,
    pitch_duration,
    fly_elapsed,            \* time.time() - start_flight, in half seconds
    maneuver_aborted,
    interdicted,            \* last interdiction_check reading
    occ_reads,              \* is_destination_occluded calls of the running attempt
    occluded,               \* last is_destination_occluded reading
    att_ret,                \* return value of the last _attempt_maneuver
    n_std, n_hard,          \* standard / hard-escape attempts started
    n_fail, n_succ,         \* standard attempts that returned False / True
    guard_hit,              \* execute returned from the safety guard
    held,                   \* buttons pressed (state=1) and not yet released
    speed,                  \* last SetSpeed command
    last_cmd,               \* last flight command issued
    last_note,              \* last ap_ckb message
    result,                 \* return value of execute
    intd_sampled,           \* interdiction_check was called in the current loop iteration
    cmds,                   \* flight commands of the current attempt, in order
    pitched,                \* duration returned by _acquire_escape_heading, in tenths
    pitch_rate,             \* pitch_rate of the pitch back
    \* ---- sun avoidance ----
    sun_pc,                 \* position in SunAvoidance.execute
    sun_cfg,                \* SunAvoidanceDuration, ap.pitchrate, ap.sunpitchuptime
    is_occluded,
    threshold,
    sun_pct,                \* sun_percent: the reading the detection is made on
    current_sun,            \* last reading of the pitch loop
    sun_elapsed,            \* time.time() - start_time, in tenths
    avoid_elapsed,          \* time.time() - avoidance_start, in half seconds
    sun_phases,             \* phases of the maneuver entered so far
    sun_result,             \* return value of SunAvoidance.execute
    \* ---- distance parsing ----
    parse_pc,               \* position in get_distance_to_station / parse_distance
    ocr_textlist,           \* what get_highlighted_item_data read, a list of texts
    text,                   \* argument of parse_distance, a sequence of characters
    val_str,                \* match.group(1)
    unit,                   \* match.group(2)
    value,                  \* float(val_str): mant / 10^places
    distance,               \* the value returned: None, or num / den kilometres
    \* ---- navigation panel tabs ----
    tab_pc,                 \* position in request_docking / get_distance_to_station / navigate_to_tab
    tab_caller,             \* the method that called navigate_to_tab
    panel,                  \* the tab the game's navigation panel shows
    start_tab,              \* the tab it showed when navigate_to_tab was entered
    target_tab,             \* argument of navigate_to_tab
    img_selected,           \* a highlighted item was found in the tab bar
    tab_ocr,                \* the tab texts that occur in str(ocr_textlist)
    tab_text,               \* the tab navigate_to_tab believes it is on
    tab_keys,               \* the panel keys sent, in order, each with its repeat count
    acted_on                \* the tab that got the caller's UI_Up, "" before

cvars == <<cpc, frame, target_val, target_visible, occ_val, occ_template_detected,
           circle_found, circle_score, ring_calls, occ_calls, final_occluded,
           reason, cret>>

svars == <<pc, config, i, att, calls, nav, acq_elapsed, elapsed, gate_satisfied,
           pitch_duration, fly_elapsed, maneuver_aborted, interdicted, occ_reads,
           occluded, att_ret, n_std, n_hard, n_fail, n_succ, guard_hit, held,
           speed, last_cmd, last_note, result, intd_sampled, cmds, pitched,
           pitch_rate>>

\* the record of the current attempt
sc_hist == <<cmds, pitched, pitch_rate>>

\* what only SupercruiseAvoidance reads or writes
sc_private == <<pc, config, i, att, calls, nav, acq_elapsed, elapsed, gate_satisfied,
                pitch_duration, fly_elapsed, maneuver_aborted, occ_reads, occluded,
                att_ret, n_std, n_hard, n_fail, n_succ, guard_hit, result,
                cmds, pitched, pitch_rate>>

sunvars == <<sun_pc, sun_cfg, is_occluded, threshold, sun_pct, current_sun,
             sun_elapsed, avoid_elapsed, sun_phases, sun_result>>

parsevars == <<parse_pc, ocr_textlist, text, val_str, unit, value, distance>>

tabvars == <<tab_pc, tab_caller, panel, start_tab, target_tab, img_selected, tab_ocr,
             tab_text, tab_keys, acted_on>>

vars == <<cvars, svars, sunvars, parsevars, tabvars>>

\* what a step of the classifier, of SupercruiseAvoidance, of SunAvoidance, of
\* the distance parser, of the tab navigation leaves alone
c_others == <<svars, sunvars, parsevars, tabvars>>

s_others == <<cvars, sunvars, parsevars, tabvars>>

sun_others == <<cvars, sc_private, parsevars, tabvars>>

parse_others == <<cvars, svars, sunvars, tabvars>>

tab_others == <<cvars, svars, sunvars, parsevars>>

Max(a, b) == IF a >= b THEN a ELSE b

Min(a, b) == IF a <= b THEN a ELSE b

(***************************************************************************)
(* Classifier: Test_Routines.test_occlusion_logic                          *)
(***************************************************************************)
MaxScore == 2

Scores == 0..MaxScore

\* A frame: the four match scores, the two thresholds of scr_reg, the ring
\* detector's output, and the call (if any) that raises on this frame because
\* the captured region is smaller than the template.
Frames ==
    [tp1 : Scores, tx3 : Scores, op1 : Scores, ox3 : Scores,
     target_thresh : 1..MaxScore, target_occluded_thresh : 1..MaxScore,
     ring_found : BOOLEAN, ring_score : 0..1,
     raises : {"none", "target", "target_occluded", "circle"}]

CInitLocals ==
    /\ target_val = 0
    /\ target_visible = FALSE
    /\ occ_val = 0
    /\ occ_template_detected = FALSE
    /\ circle_found = FALSE
    /\ circle_score = 0
    /\ ring_calls = 0
    /\ occ_calls = 0
    /\ final_occluded = FALSE
    /\ reason = "unset"
    /\ cret = <<"unset", 0, 0, 0>>

CInit ==
    /\ cpc = "solid"
    /\ frame \in Frames
    /\ CInitLocals

CIdle ==
    /\ cpc = "idle"
    /\ frame = [tp1 |-> 0, tx3 |-> 0, op1 |-> 0, ox3 |-> 0,
                target_thresh |-> 1, target_occluded_thresh |-> 1,
                ring_found |-> FALSE, ring_score |-> 0, raises |-> "none"]
    /\ CInitLocals

\* faulty variant of the handler that fails closed
ExceptReturnOccluded ==
    /\ cpc' = "done"
    /\ cret' = <<"True", 0, 0, 0>>

\* except Exception: return None, 0.0, 0.0, 0.0
ExceptReturn ==
    /\ cpc' = "done"
    /\ cret' = <<"None", 0, 0, 0>>

\* what run_live_test makes of the first value returned: a truth test
CallerLabel(v) == IF v = "True" THEN "OCCLUDED" ELSE "CLEAR"

\* [1] solid target check
SolidTargetCheck ==
    /\ cpc = "solid"
    /\ IF frame.raises = "target"
       THEN /\ ExceptReturn
            /\ UNCHANGED <<target_val, target_visible>>
       ELSE /\ target_val' = Max(frame.tp1, frame.tx3)
            /\ target_visible' = (Max(frame.tp1, frame.tx3) >= frame.target_thresh)
            /\ cpc' = "occluded"
            /\ UNCHANGED cret
    /\ UNCHANGED <<frame, occ_val, occ_template_detected, circle_found,
                   circle_score, ring_calls, occ_calls, final_occluded, reason>>
    /\ UNCHANGED c_others

\* [2] faulty variant that skips the occluded template once the veto is active
OccludedTargetCheckSkipOnVeto ==
    /\ cpc = "occluded"
    /\ IF target_visible
       THEN /\ cpc' = "circle"
            /\ UNCHANGED <<occ_calls, occ_val, occ_template_detected, cret>>
       ELSE /\ occ_calls' = occ_calls + 1
            /\ IF frame.raises = "target_occluded"
               THEN /\ ExceptReturn
                    /\ UNCHANGED <<occ_val, occ_template_detected>>
               ELSE /\ occ_val' = Max(frame.op1, frame.ox3)
                    /\ occ_template_detected' =
                           (Max(frame.op1, frame.ox3) >= frame.target_occluded_thresh)
                    /\ cpc' = "circle"
                    /\ UNCHANGED cret
    /\ UNCHANGED <<frame, target_val, target_visible, circle_found,
                   circle_score, ring_calls, final_occluded, reason>>
    /\ UNCHANGED c_others

\* [2] occluded target check
OccludedTargetCheck ==
    /\ cpc = "occluded"
    /\ occ_calls' = occ_calls + 1
    /\ IF frame.raises = "target_occluded"
       THEN /\ ExceptReturn
            /\ UNCHANGED <<occ_val, occ_template_detected>>
       ELSE /\ occ_val' = Max(frame.op1, frame.ox3)
            /\ occ_template_detected' =
                   (Max(frame.op1, frame.ox3) >= frame.target_occluded_thresh)
            /\ cpc' = "circle"
            /\ UNCHANGED cret
    /\ UNCHANGED <<frame, target_val, target_visible, circle_found,
                   circle_score, ring_calls, final_occluded, reason>>
    /\ UNCHANGED c_others

\* [3] dashed circle fallback, faulty variant that always runs the detector
DashedCircleAlways ==
    /\ cpc = "circle"
    /\ ring_calls' = ring_calls + 1
    /\ circle_found' = frame.ring_found
    /\ circle_score' = frame.ring_score
    /\ cpc' = "final"
    /\ UNCHANGED cret
    /\ UNCHANGED <<frame, target_val, target_visible, occ_val,
                   occ_template_detected, occ_calls, final_occluded, reason>>
    /\ UNCHANGED c_others

\* [3] dashed circle fallback
DashedCircleFallback ==
    /\ cpc = "circle"
    /\ IF ~occ_template_detected
       THEN /\ ring_calls' = ring_calls + 1
            /\ IF frame.raises = "circle"
               THEN /\ ExceptReturn
                    /\ UNCHANGED <<circle_found, circle_score>>
               ELSE /\ circle_found' = frame.ring_found
                    /\ circle_score' = frame.ring_score
                    /\ cpc' = "final"
                    /\ UNCHANGED cret
       ELSE /\ cpc' = "final"
            /\ UNCHANGED <<ring_calls, circle_found, circle_score, cret>>
    /\ UNCHANGED <<frame, target_val, target_visible, occ_val,
                   occ_template_detected, occ_calls, final_occluded, reason>>
    /\ UNCHANGED c_others

Verdict(occ, why) ==
    /\ final_occluded' = occ
    /\ reason' = why
    /\ cret' = <<IF occ THEN "True" ELSE "False", target_val, occ_val, circle_score>>

\* [4] final decision, faulty variant that tests the occluded template before the veto
FinalDecisionNoVeto ==
    /\ cpc = "final"
    /\ IF occ_template_detected THEN Verdict(TRUE, "template")
       ELSE IF target_visible THEN Verdict(FALSE, "veto")
       ELSE IF circle_found THEN Verdict(TRUE, "shape")
       ELSE Verdict(FALSE, "none")
    /\ cpc' = "done"
    /\ UNCHANGED <<frame, target_val, target_visible, occ_val,
                   occ_template_detected, circle_found, circle_score,
                   ring_calls, occ_calls>>
    /\ UNCHANGED c_others

\* [4] final decision, faulty variant without the shape branch
FinalDecisionNoShape ==
    /\ cpc = "final"
    /\ IF target_visible THEN Verdict(FALSE, "veto")
       ELSE IF occ_template_detected THEN Verdict(TRUE, "template")
       ELSE Verdict(FALSE, "none")
    /\ cpc' = "done"
    /\ UNCHANGED <<frame, target_val, target_visible, occ_val,
                   occ_template_detected, circle_found, circle_score,
                   ring_calls, occ_calls>>
    /\ UNCHANGED c_others

\* [4] final decision
FinalDecision ==
    /\ cpc = "final"
    /\ IF target_visible THEN Verdict(FALSE, "veto")
       ELSE IF occ_template_detected THEN Verdict(TRUE, "template")
       ELSE IF circle_found THEN Verdict(TRUE, "shape")
       ELSE Verdict(FALSE, "none")
    /\ cpc' = "done"
    /\ UNCHANGED <<frame, target_val, target_visible, occ_val,
                   occ_template_detected, circle_found, circle_score,
                   ring_calls, occ_calls>>
    /\ UNCHANGED c_others

CNext ==
    \/ SolidTargetCheck
    \/ OccludedTargetCheck
    \/ DashedCircleFallback
    \/ FinalDecision

(***************************************************************************)
(* Supercruise avoidance: scripts/SupercruiseAvoidance.py                  *)
(***************************************************************************)
SUN_BRIGHTNESS_THRESHOLD == 5

\* 0.4, in tenths
COMPASS_CONFIDENCE_THRESHOLD == 4

NAVPOINT_CONFIDENCE_THRESHOLD == 4

\* seconds added to the fly-away duration per retry
DurationStep == 30

\* pitch_duration assumed for the fallback maneuver: 3.0 s, in tenths
FallbackPitchDuration == 30

MaxAttemptsCfg == 3

MaxTimeout == 3

MaxJitter == 1

\* ap.config as execute and _acquire_escape_heading read it: configurations
\* that vary the retry and fly-away parameters, and configurations that vary
\* the parameters of the escape-heading gate
FlyConfigs ==
    [SupercruiseAvoidanceMaxAttempts : 0..MaxAttemptsCfg,
     SupercruiseAvoidanceDurationBase : {3, 20},
     SupercruiseAvoidanceDurationMax : {10, 40},
     SupercruiseAvoidanceYawDegrees : {0, 15},
     SupercruiseAvoidanceHardEscapeSeconds : {4, 45},
     SupercruiseAvoidanceRequireBehindPip : {TRUE},
     SupercruiseAvoidanceCompassEdgeThreshold : {9},
     SupercruiseAvoidanceEscapeHeadingTimeoutSeconds : {2},
     SupercruiseAvoidanceMinPitchSeconds : {1},
     SupercruiseAvoidanceUseCompassGate : {FALSE}]

AcqConfigs ==
    [SupercruiseAvoidanceMaxAttempts : {1},
     SupercruiseAvoidanceDurationBase : {1},
     SupercruiseAvoidanceDurationMax : {2},
     SupercruiseAvoidanceYawDegrees : {15},
     SupercruiseAvoidanceHardEscapeSeconds : {2},
     SupercruiseAvoidanceRequireBehindPip : BOOLEAN,
     SupercruiseAvoidanceCompassEdgeThreshold : {9},
     SupercruiseAvoidanceEscapeHeadingTimeoutSeconds : {0, MaxTimeout},
     SupercruiseAvoidanceMinPitchSeconds : {0, 2},
     SupercruiseAvoidanceUseCompassGate : BOOLEAN]

Configs == FlyConfigs \cup AcqConfigs

\* what get_nav_offset can return in one poll
NavReadings ==
    [compass_conf : {COMPASS_CONFIDENCE_THRESHOLD, COMPASS_CONFIDENCE_THRESHOLD + 1},
     nav_conf : {NAVPOINT_CONFIDENCE_THRESHOLD, NAVPOINT_CONFIDENCE_THRESHOLD + 1},
     y : {-10, -9, -8},
     z : {-1, 1}]

NoNav == [compass_conf |-> 0, nav_conf |-> 0, y |-> 0, z |-> 0]

NoAtt == [duration |-> 0, yaw |-> 0, idx |-> 0, hard |-> FALSE]

\* what sun_percent can return in one poll
SunReadings == {SUN_BRIGHTNESS_THRESHOLD, SUN_BRIGHTNESS_THRESHOLD + 1}

BoolStr(b) == IF b THEN "True" ELSE "False"

SLocals ==
    /\ i = 0
    /\ att = NoAtt
    /\ calls = <<>>
    /\ nav = NoNav
    /\ acq_elapsed = 0
    /\ elapsed = 0
    /\ gate_satisfied = FALSE
    /\ pitch_duration = 0
    /\ fly_elapsed = 0
    /\ maneuver_aborted = FALSE
    /\ interdicted = FALSE
    /\ occ_reads = 0
    /\ occluded = FALSE
    /\ att_ret = FALSE
    /\ n_std = 0
    /\ n_hard = 0
    /\ n_fail = 0
    /\ n_succ = 0
    /\ guard_hit = FALSE
    /\ held = {}
    /\ speed = "unset"
    /\ last_cmd = "none"
    /\ last_note = "none"
    /\ result = "unset"
    /\ intd_sampled = FALSE
    /\ cmds = <<>>
    /\ pitched = 0
    /\ pitch_rate = 0

SInit ==
    /\ pc = "guard"
    /\ config \in Configs
    /\ SLocals

SIdle ==
    /\ pc = "idle"
    /\ config = [SupercruiseAvoidanceMaxAttempts |-> 3,
                 SupercruiseAvoidanceDurationBase |-> 60,
                 SupercruiseAvoidanceDurationMax |-> 120,
                 SupercruiseAvoidanceYawDegrees |-> 15,
                 SupercruiseAvoidanceHardEscapeSeconds |-> 120,
                 SupercruiseAvoidanceRequireBehindPip |-> TRUE,
                 SupercruiseAvoidanceCompassEdgeThreshold |-> 9,
                 SupercruiseAvoidanceEscapeHeadingTimeoutSeconds |-> 120,
                 SupercruiseAvoidanceMinPitchSeconds |-> 15,
                 SupercruiseAvoidanceUseCompassGate |-> FALSE]
    /\ SLocals

\* keys.send(name, state=1), keys.send(name, state=0), keys.send(name)
Press(b) ==
    /\ held' = held \cup {b}
    /\ last_cmd' = b

Release(b) ==
    /\ held' = held \ {b}
    /\ last_cmd' = b

Command(c) ==
    /\ last_cmd' = c
    /\ UNCHANGED held

\* an entry of cmds: a key with its state, or a call with its degrees
Cmd(n, a) == [name |-> n, arg |-> a]

\* yawRight(180) in half degrees, pitchUp(45) in tenths of a degree
FallbackYaw == 360

FallbackPitch == 450

\* pitch_rate when ap.pitchrate is missing or not positive
DefaultPitchRate == 10

\* what ap.pitchrate can be
PitchRates == {-1, 0, 2}

\* ---- execute: the safety guard ----
\* faulty variant that starts the maneuver although the target is visible
GuardIgnored ==
    /\ pc = "guard"
    /\ \E visible \in BOOLEAN :
          /\ guard_hit' = visible
          /\ last_note' = "Target occluded, avoiding"
          /\ pc' = "loop"
          /\ UNCHANGED result
    /\ UNCHANGED <<config, i, att, calls, nav, acq_elapsed, elapsed, gate_satisfied,
                   pitch_duration, fly_elapsed, maneuver_aborted, interdicted,
                   occ_reads, occluded, att_ret, n_std, n_hard, n_fail, n_succ,
                   held, speed, last_cmd>>
    /\ UNCHANGED intd_sampled
    /\ UNCHANGED sc_hist
    /\ UNCHANGED s_others

Guard ==
    /\ pc = "guard"
    /\ \E visible \in BOOLEAN :          \* get_destination_offset is not None
          IF visible
          THEN /\ guard_hit' = TRUE
               /\ last_note' = "Avoidance aborted: Target visible"
               /\ result' = "True"
               /\ pc' = "done"
          ELSE /\ last_note' = "Target occluded, avoiding"
               /\ pc' = "loop"
               /\ UNCHANGED <<guard_hit, result>>
    /\ UNCHANGED <<config, i, att, calls, nav, acq_elapsed, elapsed, gate_satisfied,
                   pitch_duration, fly_elapsed, maneuver_aborted, interdicted,
                   occ_reads, occluded, att_ret, n_std, n_hard, n_fail, n_succ,
                   held, speed, last_cmd>>
    /\ UNCHANGED intd_sampled
    /\ UNCHANGED sc_hist
    /\ UNCHANGED s_others

\* ---- execute: the arguments of a standard attempt ----
\* faulty variant without the cap
StdDurationUncapped(k) ==
    config.SupercruiseAvoidanceDurationBase + (k * DurationStep)

StdDuration(k) ==
    Min(config.SupercruiseAvoidanceDurationBase + (k * DurationStep),
        config.SupercruiseAvoidanceDurationMax)

\* in half degrees
StdYaw(k) == IF k = 0 THEN 0 ELSE 2 * config.SupercruiseAvoidanceYawDegrees

\* yaw_increment * 1.5, in half degrees
HardYaw == 3 * config.SupercruiseAvoidanceYawDegrees

\* for i in range(max_attempts): ... self._attempt_maneuver(scr_reg, duration, yaw, i)
StartAttempt ==
    /\ pc = "loop"
    /\ i < config.SupercruiseAvoidanceMaxAttempts
    /\ att' = [duration |-> StdDuration(i), yaw |-> StdYaw(i), idx |-> i, hard |-> FALSE]
    /\ calls' = Append(calls, att')
    /\ n_std' = n_std + 1
    /\ pc' = "attempt"
    /\ UNCHANGED <<config, i, nav, acq_elapsed, elapsed, gate_satisfied,
                   pitch_duration, fly_elapsed, maneuver_aborted, interdicted,
                   occ_reads, occluded, att_ret, n_hard, n_fail, n_succ, guard_hit,
                   held, speed, last_cmd, last_note, result>>
    /\ UNCHANGED intd_sampled
    /\ UNCHANGED sc_hist
    /\ UNCHANGED s_others

\* faulty variant that caps the hard escape's duration like a standard attempt's
StartHardEscapeCapped ==
    /\ pc = "loop"
    /\ i >= config.SupercruiseAvoidanceMaxAttempts
    /\ last_note' = "Hard Escape Initiated"
    /\ att' = [duration |-> Min(config.SupercruiseAvoidanceHardEscapeSeconds,
                                config.SupercruiseAvoidanceDurationMax),
               yaw |-> HardYaw, idx |-> 99, hard |-> TRUE]
    /\ calls' = Append(calls, att')
    /\ n_hard' = n_hard + 1
    /\ pc' = "attempt"
    /\ UNCHANGED <<config, i, nav, acq_elapsed, elapsed, gate_satisfied,
                   pitch_duration, fly_elapsed, maneuver_aborted, interdicted,
                   occ_reads, occluded, att_ret, n_std, n_fail, n_succ, guard_hit,
                   held, speed, last_cmd, result>>
    /\ UNCHANGED intd_sampled
    /\ UNCHANGED sc_hist
    /\ UNCHANGED s_others

\* all standard attempts failed: the hard escape
StartHardEscape ==
    /\ pc = "loop"
    /\ i >= config.SupercruiseAvoidanceMaxAttempts
    /\ last_note' = "Hard Escape Initiated"
    /\ att' = [duration |-> config.SupercruiseAvoidanceHardEscapeSeconds,
               yaw |-> HardYaw, idx |-> 99, hard |-> TRUE]
    /\ calls' = Append(calls, att')
    /\ n_hard' = n_hard + 1
    /\ pc' = "attempt"
    /\ UNCHANGED <<config, i, nav, acq_elapsed, elapsed, gate_satisfied,
                   pitch_duration, fly_elapsed, maneuver_aborted, interdicted,
                   occ_reads, occluded, att_ret, n_std, n_fail, n_succ, guard_hit,
                   held, speed, last_cmd, result>>
    /\ UNCHANGED intd_sampled
    /\ UNCHANGED sc_hist
    /\ UNCHANGED s_others

\* ---- _attempt_maneuver, phase 1: slow down ----
SlowDown ==
    /\ pc = "attempt"
    /\ last_note' = "Avoidance attempt"
    /\ Command("SetSpeed50")
    /\ speed' = "SetSpeed50"
    /\ occ_reads' = 0
    /\ pc' = "acquire"
    /\ UNCHANGED <<config, i, att, calls, nav, acq_elapsed, elapsed, gate_satisfied,
                   pitch_duration, fly_elapsed, maneuver_aborted, interdicted,
                   occluded, att_ret, n_std, n_hard, n_fail, n_succ, guard_hit,
                   result>>
    /\ UNCHANGED intd_sampled
    /\ cmds' = <<Cmd("SetSpeed50", 0)>>
    /\ UNCHANGED <<pitched, pitch_rate>>
    /\ UNCHANGED s_others

\* ---- _acquire_escape_heading ----
\* faulty variant that honours UseCompassGate as _pitch_away does: without the
\* gate a fixed pitchUp(90), reported as 90 / pitch_rate seconds of pitching
AcquireStartLegacy ==
    /\ pc = "acquire"
    /\ acq_elapsed' = 0
    /\ elapsed' = 0
    /\ nav' = NoNav
    /\ intd_sampled' = FALSE
    /\ IF config.SupercruiseAvoidanceUseCompassGate
       THEN /\ Press("PitchUpButton")
            /\ gate_satisfied' = FALSE
            /\ pc' = "acq_loop"
            /\ cmds' = Append(cmds, Cmd("PitchUpButton", 1))
            /\ UNCHANGED pitch_duration
       ELSE /\ Command("pitchUp")
            /\ gate_satisfied' = TRUE
            /\ pc' = "yaw"
            /\ cmds' = Append(cmds, Cmd("pitchUp", 900))
            /\ pitch_duration' = 900 \div DefaultPitchRate
    /\ UNCHANGED <<config, i, att, calls, fly_elapsed,
                   maneuver_aborted, interdicted, occ_reads, occluded, att_ret,
                   n_std, n_hard, n_fail, n_succ, guard_hit, speed, last_note,
                   result>>
    /\ UNCHANGED <<pitched, pitch_rate>>
    /\ UNCHANGED s_others

AcquireStart ==
    /\ pc = "acquire"
    /\ acq_elapsed' = 0
    /\ elapsed' = 0
    /\ nav' = NoNav
    /\ Press("PitchUpButton")
    /\ gate_satisfied' = FALSE
    /\ pc' = "acq_loop"
    /\ UNCHANGED <<config, i, att, calls, pitch_duration, fly_elapsed,
                   maneuver_aborted, interdicted, occ_reads, occluded, att_ret,
                   n_std, n_hard, n_fail, n_succ, guard_hit, speed, last_note,
                   result>>
    /\ intd_sampled' = FALSE
    /\ cmds' = Append(cmds, Cmd("PitchUpButton", 1))
    /\ UNCHANGED <<pitched, pitch_rate>>
    /\ UNCHANGED s_others

\* faulty variant that does not wait for the minimum pitch time
GateOKNoMinPitch(n, e) ==
    /\ n.compass_conf > COMPASS_CONFIDENCE_THRESHOLD
    /\ n.nav_conf > NAVPOINT_CONFIDENCE_THRESHOLD
    /\ n.y <= -config.SupercruiseAvoidanceCompassEdgeThreshold
    /\ (config.SupercruiseAvoidanceRequireBehindPip => n.z < 0)

\* the compass gate of one poll: reading n, local elapsed e
GateOK(n, e) ==
    /\ n.compass_conf > COMPASS_CONFIDENCE_THRESHOLD
    /\ n.nav_conf > NAVPOINT_CONFIDENCE_THRESHOLD
    /\ n.y <= -config.SupercruiseAvoidanceCompassEdgeThreshold
    /\ (config.SupercruiseAvoidanceRequireBehindPip => n.z < 0)
    /\ e >= config.SupercruiseAvoidanceMinPitchSeconds

\* one iteration of the while loop
AcquirePoll ==
    /\ pc = "acq_loop"
    /\ acq_elapsed < config.SupercruiseAvoidanceEscapeHeadingTimeoutSeconds
    /\ \E n \in NavReadings, d \in 0..MaxJitter :
          /\ nav' = n
          /\ elapsed' = acq_elapsed + d
          /\ IF GateOK(n, acq_elapsed + d)
             THEN /\ gate_satisfied' = TRUE
                  /\ acq_elapsed' = acq_elapsed + d
                  /\ pc' = "acq_exit"
             ELSE /\ acq_elapsed' = acq_elapsed + d + 1       \* time.sleep(0.1)
                  /\ pc' = "acq_loop"
                  /\ UNCHANGED gate_satisfied
    /\ UNCHANGED <<config, i, att, calls, pitch_duration, fly_elapsed,
                   maneuver_aborted, interdicted, occ_reads, occluded, att_ret,
                   n_std, n_hard, n_fail, n_succ, guard_hit, held, speed,
                   last_cmd, last_note, result>>
    /\ intd_sampled' = FALSE
    /\ UNCHANGED sc_hist
    /\ UNCHANGED s_others

\* the while condition fails
AcquireTimeout ==
    /\ pc = "acq_loop"
    /\ acq_elapsed >= config.SupercruiseAvoidanceEscapeHeadingTimeoutSeconds
    /\ pc' = "acq_exit"
    /\ UNCHANGED <<config, i, att, calls, nav, acq_elapsed, elapsed, gate_satisfied,
                   pitch_duration, fly_elapsed, maneuver_aborted, interdicted,
                   occ_reads, occluded, att_ret, n_std, n_hard, n_fail, n_succ,
                   guard_hit, held, speed, last_cmd, last_note, result>>
    /\ UNCHANGED intd_sampled
    /\ UNCHANGED sc_hist
    /\ UNCHANGED s_others

\* finally: release; return (gate_satisfied, duration)
AcquireReturn ==
    /\ pc = "acq_exit"
    /\ Release("PitchUpButton")
    /\ pitch_duration' = acq_elapsed
    /\ nav' = NoNav                         \* the locals of the call are gone
    /\ acq_elapsed' = 0
    /\ elapsed' = 0
    /\ pc' = "escape"
    /\ UNCHANGED <<config, i, att, calls, gate_satisfied,
                   fly_elapsed, maneuver_aborted, interdicted, occ_reads, occluded,
                   att_ret, n_std, n_hard, n_fail, n_succ, guard_hit, speed,
                   last_note, result>>
    /\ UNCHANGED intd_sampled
    /\ cmds' = Append(cmds, Cmd("PitchUpButton", 0))
    /\ pitched' = acq_elapsed
    /\ UNCHANGED pitch_rate
    /\ UNCHANGED s_others

\* faulty variant that runs the fallback whatever the acquisition returned
FallbackEscapeAlways ==
    /\ pc = "escape"
    /\ IF TRUE
       THEN /\ last_note' = "Compass unreliable, fallback escape"
            /\ Command("pitchUp")                 \* yawRight(180), then pitchUp(45)
            /\ pitch_duration' = FallbackPitchDuration
       ELSE UNCHANGED <<last_note, last_cmd, held, pitch_duration>>
    /\ pc' = "yaw"
    /\ UNCHANGED <<config, i, att, calls, nav, acq_elapsed, elapsed, gate_satisfied,
                   fly_elapsed, maneuver_aborted, interdicted, occ_reads, occluded,
                   att_ret, n_std, n_hard, n_fail, n_succ, guard_hit, speed, result>>
    /\ UNCHANGED intd_sampled
    /\ cmds' = IF TRUE
                THEN cmds \o <<Cmd("yawRight", FallbackYaw), Cmd("pitchUp", FallbackPitch)>>
                ELSE cmds
    /\ UNCHANGED <<pitched, pitch_rate>>
    /\ UNCHANGED s_others

\* ---- _attempt_maneuver, phase 2: fallback when the gate failed ----
FallbackEscape ==
    /\ pc = "escape"
    /\ IF ~gate_satisfied
       THEN /\ last_note' = "Compass unreliable, fallback escape"
            /\ Command("pitchUp")                 \* yawRight(180), then pitchUp(45)
            /\ pitch_duration' = FallbackPitchDuration
       ELSE UNCHANGED <<last_note, last_cmd, held, pitch_duration>>
    /\ pc' = "yaw"
    /\ UNCHANGED <<config, i, att, calls, nav, acq_elapsed, elapsed, gate_satisfied,
                   fly_elapsed, maneuver_aborted, interdicted, occ_reads, occluded,
                   att_ret, n_std, n_hard, n_fail, n_succ, guard_hit, speed, result>>
    /\ UNCHANGED intd_sampled
    /\ cmds' = IF ~gate_satisfied
                THEN cmds \o <<Cmd("yawRight", FallbackYaw), Cmd("pitchUp", FallbackPitch)>>
                ELSE cmds
    /\ UNCHANGED <<pitched, pitch_rate>>
    /\ UNCHANGED s_others

\* ---- phase 3: yaw drift ----
YawDrift ==
    /\ pc = "yaw"
    /\ IF att.yaw > 0
       THEN Command("yawRight")
       ELSE UNCHANGED <<last_cmd, held>>
    /\ pc' = "fly_start"
    /\ UNCHANGED <<config, i, att, calls, nav, acq_elapsed, elapsed, gate_satisfied,
                   pitch_duration, fly_elapsed, maneuver_aborted, interdicted,
                   occ_reads, occluded, att_ret, n_std, n_hard, n_fail, n_succ,
                   guard_hit, speed, last_note, result>>
    /\ UNCHANGED intd_sampled
    /\ cmds' = IF att.yaw > 0 THEN Append(cmds, Cmd("yawRight", att.yaw)) ELSE cmds
    /\ UNCHANGED <<pitched, pitch_rate>>
    /\ UNCHANGED s_others

\* ---- phase 4: fly away ----
FlyStart ==
    /\ pc = "fly_start"
    /\ Command("SetSpeed100")
    /\ speed' = "SetSpeed100"
    /\ fly_elapsed' = 0
    /\ maneuver_aborted' = FALSE
    /\ pc' = "fly_loop"
    /\ UNCHANGED <<config, i, att, calls, nav, acq_elapsed, elapsed, gate_satisfied,
                   pitch_duration, interdicted, occ_reads, occluded, att_ret,
                   n_std, n_hard, n_fail, n_succ, guard_hit, last_note, result>>
    /\ intd_sampled' = FALSE
    /\ cmds' = Append(cmds, Cmd("SetSpeed100", 0))
    /\ UNCHANGED <<pitched, pitch_rate>>
    /\ UNCHANGED s_others

\* faulty variant that leaves the loop as soon as the destination reads clear
FlyStarCheckEarlyExit ==
    /\ pc = "fly_loop"
    /\ fly_elapsed < 2 * att.duration
    /\ \E occ \in BOOLEAN :
          /\ occluded' = occ
          /\ occ_reads' = occ_reads + 1
          /\ pc' = IF occ THEN "fly_intd" ELSE "pitch_back"
    /\ UNCHANGED <<config, i, att, calls, nav, acq_elapsed, elapsed, gate_satisfied,
                   pitch_duration, fly_elapsed, maneuver_aborted, interdicted,
                   att_ret, n_std, n_hard, n_fail, n_succ, guard_hit,
                   held, speed, last_cmd, last_note, result>>
    /\ intd_sampled' = FALSE
    /\ UNCHANGED sc_hist
    /\ UNCHANGED s_others

\* faulty variant that marks the maneuver aborted when a star is seen
FlyStarCheckAbort ==
    /\ pc = "fly_loop"
    /\ fly_elapsed < 2 * att.duration
    /\ \E sun_percent \in SunReadings :
          IF sun_percent > SUN_BRIGHTNESS_THRESHOLD          \* not _is_path_clear
          THEN /\ last_note' = "Star detected, pitching up"
               /\ Press("PitchUpButton")
               /\ cmds' = IF cmds[Len(cmds)] = Cmd("PitchUpButton", 0)
                           THEN cmds        \* repeated pulses are recorded once
                           ELSE Append(cmds, Cmd("PitchUpButton", 1))
               /\ pc' = "fly_pulse"
               /\ maneuver_aborted' = TRUE
          ELSE /\ pc' = "fly_intd"
               /\ UNCHANGED <<last_note, last_cmd, held, cmds, maneuver_aborted>>
    /\ UNCHANGED <<config, i, att, calls, nav, acq_elapsed, elapsed, gate_satisfied,
                   pitch_duration, fly_elapsed, interdicted,
                   occ_reads, occluded, att_ret, n_std, n_hard, n_fail, n_succ,
                   guard_hit, speed, result>>
    /\ intd_sampled' = FALSE
    /\ UNCHANGED <<pitched, pitch_rate>>
    /\ UNCHANGED s_others

\* loop test passed; the star-ahead safety check
FlyStarCheck ==
    /\ pc = "fly_loop"
    /\ fly_elapsed < 2 * att.duration
    /\ \E sun_percent \in SunReadings :
          IF sun_percent > SUN_BRIGHTNESS_THRESHOLD          \* not _is_path_clear
          THEN /\ last_note' = "Star detected, pitching up"
               /\ Press("PitchUpButton")
               /\ cmds' = IF cmds[Len(cmds)] = Cmd("PitchUpButton", 0)
                           THEN cmds        \* repeated pulses are recorded once
                           ELSE Append(cmds, Cmd("PitchUpButton", 1))
               /\ pc' = "fly_pulse"
          ELSE /\ pc' = "fly_intd"
               /\ UNCHANGED <<last_note, last_cmd, held, cmds>>
    /\ UNCHANGED <<config, i, att, calls, nav, acq_elapsed, elapsed, gate_satisfied,
                   pitch_duration, fly_elapsed, maneuver_aborted, interdicted,
                   occ_reads, occluded, att_ret, n_std, n_hard, n_fail, n_succ,
                   guard_hit, speed, result>>
    /\ intd_sampled' = FALSE
    /\ UNCHANGED <<pitched, pitch_rate>>
    /\ UNCHANGED s_others

\* faulty variant that restarts the fly-away clock after a pulse
FlyPulseRestart ==
    /\ pc = "fly_pulse"
    /\ fly_elapsed' = 0
    /\ Release("PitchUpButton")
    /\ pc' = "fly_intd"
    /\ UNCHANGED <<config, i, att, calls, nav, acq_elapsed, elapsed, gate_satisfied,
                   pitch_duration, maneuver_aborted, interdicted, occ_reads,
                   occluded, att_ret, n_std, n_hard, n_fail, n_succ, guard_hit,
                   speed, last_note, result>>
    /\ UNCHANGED intd_sampled
    /\ cmds' = IF cmds[Len(cmds)] = Cmd("PitchUpButton", 1)
                THEN Append(cmds, Cmd("PitchUpButton", 0)) ELSE cmds
    /\ UNCHANGED <<pitched, pitch_rate>>
    /\ UNCHANGED s_others

\* time.sleep(2.5), release
FlyPulseRelease ==
    /\ pc = "fly_pulse"
    /\ fly_elapsed' = fly_elapsed + 5
    /\ Release("PitchUpButton")
    /\ pc' = "fly_intd"
    /\ UNCHANGED <<config, i, att, calls, nav, acq_elapsed, elapsed, gate_satisfied,
                   pitch_duration, maneuver_aborted, interdicted, occ_reads,
                   occluded, att_ret, n_std, n_hard, n_fail, n_succ, guard_hit,
                   speed, last_note, result>>
    /\ UNCHANGED intd_sampled
    /\ cmds' = IF cmds[Len(cmds)] = Cmd("PitchUpButton", 1)
                THEN Append(cmds, Cmd("PitchUpButton", 0)) ELSE cmds
    /\ UNCHANGED <<pitched, pitch_rate>>
    /\ UNCHANGED s_others

\* faulty variant that breaks out of the loop on interdiction and carries on
FlyInterdictionBreak ==
    /\ pc = "fly_intd"
    /\ \E b \in BOOLEAN :
          /\ interdicted' = b
          /\ IF b
             THEN /\ pc' = "pitch_back"
                  /\ UNCHANGED fly_elapsed
             ELSE /\ fly_elapsed' = fly_elapsed + 2
                  /\ pc' = "fly_loop"
    /\ UNCHANGED <<config, i, att, calls, nav, acq_elapsed, elapsed, gate_satisfied,
                   maneuver_aborted, occ_reads, occluded, att_ret, pitch_duration,
                   n_std, n_hard, n_fail, n_succ, guard_hit, held, speed,
                   last_cmd, last_note, result>>
    /\ intd_sampled' = TRUE
    /\ UNCHANGED sc_hist
    /\ UNCHANGED s_others

\* the interdiction safety check, then time.sleep(1)
FlyInterdictionCheck ==
    /\ pc = "fly_intd"
    /\ \E b \in BOOLEAN :
          /\ interdicted' = b
          /\ IF b
             THEN /\ att_ret' = TRUE                  \* return True
                  /\ pc' = "att_return"
                  /\ fly_elapsed' = 0
                  /\ pitch_duration' = 0
                  /\ cmds' = <<>>
                  /\ pitched' = 0
             ELSE /\ fly_elapsed' = fly_elapsed + 2  \* time.sleep(1)
                  /\ pc' = "fly_loop"
                  /\ UNCHANGED <<att_ret, pitch_duration, cmds, pitched>>
    /\ UNCHANGED <<config, i, att, calls, nav, acq_elapsed, elapsed, gate_satisfied,
                   maneuver_aborted, occ_reads, occluded,
                   n_std, n_hard, n_fail, n_succ, guard_hit, held, speed,
                   last_cmd, last_note, result>>
    /\ intd_sampled' = TRUE
    /\ UNCHANGED pitch_rate
    /\ UNCHANGED s_others

\* the while condition fails; the recovery branch is taken if maneuver_aborted
FlyExit ==
    /\ pc = "fly_loop"
    /\ fly_elapsed >= 2 * att.duration
    /\ IF maneuver_aborted
       THEN /\ Command("SetSpeed50")       \* SetSpeed50, sun_avoid, nav_align, SetSpeed50
            /\ speed' = "SetSpeed50"
            /\ att_ret' = FALSE
            /\ pc' = "att_return"
       ELSE /\ pc' = "pitch_back"
            /\ UNCHANGED <<last_cmd, held, speed, att_ret>>
    /\ UNCHANGED <<config, i, att, calls, nav, acq_elapsed, elapsed, gate_satisfied,
                   pitch_duration, fly_elapsed, maneuver_aborted, interdicted,
                   occ_reads, occluded, n_std, n_hard, n_fail, n_succ, guard_hit,
                   last_note, result>>
    /\ UNCHANGED intd_sampled
    /\ UNCHANGED sc_hist
    /\ UNCHANGED s_others

\* faulty variant that pitches back at full speed
PitchBackNoSlow ==
    /\ pc = "pitch_back"
    /\ UNCHANGED <<last_cmd, held, speed>>
    /\ fly_elapsed' = 0                     \* start_flight is not read again
    /\ pc' = "pitch_down"
    /\ UNCHANGED <<config, i, att, calls, nav, acq_elapsed, elapsed, gate_satisfied,
                   pitch_duration, maneuver_aborted, interdicted,
                   occ_reads, occluded, att_ret, n_std, n_hard, n_fail, n_succ,
                   guard_hit, last_note, result>>
    /\ UNCHANGED intd_sampled
    /\ UNCHANGED cmds
    /\ UNCHANGED <<pitched, pitch_rate>>
    /\ UNCHANGED s_others

\* ---- phase 5: pitch back / return ----
PitchBackSlow ==
    /\ pc = "pitch_back"
    /\ Command("SetSpeed50")
    /\ speed' = "SetSpeed50"
    /\ fly_elapsed' = 0                     \* start_flight is not read again
    /\ pc' = "pitch_down"
    /\ UNCHANGED <<config, i, att, calls, nav, acq_elapsed, elapsed, gate_satisfied,
                   pitch_duration, maneuver_aborted, interdicted,
                   occ_reads, occluded, att_ret, n_std, n_hard, n_fail, n_succ,
                   guard_hit, last_note, result>>
    /\ UNCHANGED intd_sampled
    /\ cmds' = Append(cmds, Cmd("SetSpeed50", 0))
    /\ UNCHANGED <<pitched, pitch_rate>>
    /\ UNCHANGED s_others

PitchDown ==
    /\ pc = "pitch_down"
    /\ Command("pitchDown")
    /\ \E rate \in PitchRates :
          LET r == IF rate <= 0 THEN DefaultPitchRate ELSE rate
          IN  /\ pitch_rate' = r
              /\ cmds' = Append(cmds, Cmd("pitchDown", pitch_duration * r))
    /\ pc' = "yaw_back"
    /\ UNCHANGED <<config, i, att, calls, nav, acq_elapsed, elapsed, gate_satisfied,
                   pitch_duration, fly_elapsed, maneuver_aborted, interdicted,
                   occ_reads, occluded, att_ret, n_std, n_hard, n_fail, n_succ,
                   guard_hit, speed, last_note, result>>
    /\ UNCHANGED intd_sampled
    /\ UNCHANGED pitched
    /\ UNCHANGED s_others

\* faulty variant that yaws to the right again instead of reversing
YawReverseSameSide ==
    /\ pc = "yaw_back"
    /\ IF att.yaw > 0
       THEN Command("yawRight")
       ELSE UNCHANGED <<last_cmd, held>>
    /\ pc' = "align"
    /\ UNCHANGED <<config, i, att, calls, nav, acq_elapsed, elapsed, gate_satisfied,
                   pitch_duration, fly_elapsed, maneuver_aborted, interdicted,
                   occ_reads, occluded, att_ret, n_std, n_hard, n_fail, n_succ,
                   guard_hit, speed, last_note, result>>
    /\ UNCHANGED intd_sampled
    /\ cmds' = IF att.yaw > 0 THEN Append(cmds, Cmd("yawRight", att.yaw)) ELSE cmds
    /\ UNCHANGED <<pitched, pitch_rate>>
    /\ UNCHANGED s_others

YawReverse ==
    /\ pc = "yaw_back"
    /\ IF att.yaw > 0
       THEN Command("yawLeft")
       ELSE UNCHANGED <<last_cmd, held>>
    /\ pc' = "align"
    /\ UNCHANGED <<config, i, att, calls, nav, acq_elapsed, elapsed, gate_satisfied,
                   pitch_duration, fly_elapsed, maneuver_aborted, interdicted,
                   occ_reads, occluded, att_ret, n_std, n_hard, n_fail, n_succ,
                   guard_hit, speed, last_note, result>>
    /\ UNCHANGED intd_sampled
    /\ cmds' = IF att.yaw > 0 THEN Append(cmds, Cmd("yawLeft", att.yaw)) ELSE cmds
    /\ UNCHANGED <<pitched, pitch_rate>>
    /\ UNCHANGED s_others

\* ---- phase 6: align and check ----
NavAlign ==
    /\ pc = "align"
    /\ Command("nav_align")
    /\ pc' = "verify"
    /\ UNCHANGED <<config, i, att, calls, nav, acq_elapsed, elapsed, gate_satisfied,
                   pitch_duration, fly_elapsed, maneuver_aborted, interdicted,
                   occ_reads, occluded, att_ret, n_std, n_hard, n_fail, n_succ,
                   guard_hit, speed, last_note, result>>
    /\ UNCHANGED intd_sampled
    /\ cmds' = Append(cmds, Cmd("nav_align", 0))
    /\ UNCHANGED <<pitched, pitch_rate>>
    /\ UNCHANGED s_others

\* faulty variant that trusts the first reading
VerifyNoDebounce ==
    /\ pc \in {"verify", "verify2"}
    /\ \E occ \in BOOLEAN :
          /\ occluded' = occ
          /\ occ_reads' = occ_reads + 1
          /\ pc' = "verdict"
    /\ UNCHANGED <<config, i, att, calls, nav, acq_elapsed, elapsed, gate_satisfied,
                   pitch_duration, fly_elapsed, maneuver_aborted, interdicted,
                   att_ret, n_std, n_hard, n_fail, n_succ, guard_hit, held, speed,
                   last_cmd, last_note, result>>
    /\ UNCHANGED intd_sampled
    /\ UNCHANGED sc_hist
    /\ UNCHANGED s_others

\* occluded = is_destination_occluded(); if occluded: sleep(0.3), read again
Verify ==
    /\ pc \in {"verify", "verify2"}
    /\ \E occ \in BOOLEAN :
          /\ occluded' = occ
          /\ occ_reads' = occ_reads + 1
          /\ pc' = IF occ /\ pc = "verify" THEN "verify2" ELSE "verdict"
    /\ UNCHANGED <<config, i, att, calls, nav, acq_elapsed, elapsed, gate_satisfied,
                   pitch_duration, fly_elapsed, maneuver_aborted, interdicted,
                   att_ret, n_std, n_hard, n_fail, n_succ, guard_hit, held, speed,
                   last_cmd, last_note, result>>
    /\ UNCHANGED intd_sampled
    /\ UNCHANGED sc_hist
    /\ UNCHANGED s_others

AttemptVerdict ==
    /\ pc = "verdict"
    /\ att_ret' = ~occluded
    /\ pitch_duration' = 0
    /\ pc' = "att_return"
    /\ UNCHANGED <<config, i, att, calls, nav, acq_elapsed, elapsed, gate_satisfied,
                   fly_elapsed, maneuver_aborted, interdicted,
                   occ_reads, occluded, n_std, n_hard, n_fail, n_succ, guard_hit,
                   held, speed, last_cmd, last_note, result>>
    /\ UNCHANGED intd_sampled
    /\ cmds' = <<>>                         \* the locals of the call are gone
    /\ pitched' = 0
    /\ pitch_rate' = 0
    /\ UNCHANGED s_others

\* ---- execute: after an attempt ----
\* faulty variant that goes on to the next attempt whatever the attempt returned
StdReturnRetryAlways ==
    /\ pc = "att_return"
    /\ ~att.hard
    /\ IF att_ret THEN n_succ' = n_succ + 1 /\ UNCHANGED n_fail
                  ELSE n_fail' = n_fail + 1 /\ UNCHANGED n_succ
    /\ i' = i + 1
    /\ pc' = "loop"
    /\ UNCHANGED <<last_note, result>>
    /\ UNCHANGED <<config, att, calls, nav, acq_elapsed, elapsed, gate_satisfied,
                   pitch_duration, fly_elapsed, maneuver_aborted, interdicted,
                   occ_reads, occluded, att_ret, n_std, n_hard, guard_hit, held,
                   speed, last_cmd>>
    /\ UNCHANGED intd_sampled
    /\ UNCHANGED sc_hist
    /\ UNCHANGED s_others

\* success = self._attempt_maneuver(...); if success: return True
StdReturn ==
    /\ pc = "att_return"
    /\ ~att.hard
    /\ IF att_ret
       THEN /\ n_succ' = n_succ + 1
            /\ last_note' = "Obstruction cleared"
            /\ result' = "True"
            /\ pc' = "done"
            /\ UNCHANGED <<i, n_fail>>
       ELSE /\ n_fail' = n_fail + 1
            /\ i' = i + 1
            /\ pc' = "loop"
            /\ UNCHANGED <<n_succ, last_note, result>>
    /\ UNCHANGED <<config, att, calls, nav, acq_elapsed, elapsed, gate_satisfied,
                   pitch_duration, fly_elapsed, maneuver_aborted, interdicted,
                   occ_reads, occluded, att_ret, n_std, n_hard, guard_hit, held,
                   speed, last_cmd>>
    /\ UNCHANGED intd_sampled
    /\ UNCHANGED sc_hist
    /\ UNCHANGED s_others

\* faulty variant that reports what the hard escape returned
HardReturnPropagates ==
    /\ pc = "att_return"
    /\ att.hard
    /\ last_note' = "Avoidance Sequence Complete"
    /\ result' = BoolStr(att_ret)
    /\ pc' = "done"
    /\ UNCHANGED <<config, i, att, calls, nav, acq_elapsed, elapsed, gate_satisfied,
                   pitch_duration, fly_elapsed, maneuver_aborted, interdicted,
                   occ_reads, occluded, att_ret, n_std, n_hard, n_fail, n_succ,
                   guard_hit, held, speed, last_cmd>>
    /\ UNCHANGED intd_sampled
    /\ UNCHANGED sc_hist
    /\ UNCHANGED s_others

\* faulty variant that goes back to the retry loop after the hard escape
HardReturnRetry ==
    /\ pc = "att_return"
    /\ att.hard
    /\ last_note' = "Avoidance Sequence Complete"
    /\ UNCHANGED result
    /\ pc' = "loop"
    /\ UNCHANGED <<config, i, att, calls, nav, acq_elapsed, elapsed, gate_satisfied,
                   pitch_duration, fly_elapsed, maneuver_aborted, interdicted,
                   occ_reads, occluded, att_ret, n_std, n_hard, n_fail, n_succ,
                   guard_hit, held, speed, last_cmd>>
    /\ UNCHANGED intd_sampled
    /\ UNCHANGED sc_hist
    /\ UNCHANGED s_others

\* the hard escape's return value is dropped
HardReturn ==
    /\ pc = "att_return"
    /\ att.hard
    /\ last_note' = "Avoidance Sequence Complete"
    /\ result' = "True"
    /\ pc' = "done"
    /\ UNCHANGED <<config, i, att, calls, nav, acq_elapsed, elapsed, gate_satisfied,
                   pitch_duration, fly_elapsed, maneuver_aborted, interdicted,
                   occ_reads, occluded, att_ret, n_std, n_hard, n_fail, n_succ,
                   guard_hit, held, speed, last_cmd>>
    /\ UNCHANGED intd_sampled
    /\ UNCHANGED sc_hist
    /\ UNCHANGED s_others

SNext ==
    \/ Guard
    \/ StartAttempt
    \/ StartHardEscape
    \/ SlowDown
    \/ AcquireStart
    \/ AcquirePoll
    \/ AcquireTimeout
    \/ AcquireReturn
    \/ FallbackEscape
    \/ YawDrift
    \/ FlyStart
    \/ FlyStarCheck
    \/ FlyPulseRelease
    \/ FlyInterdictionCheck
    \/ FlyExit
    \/ PitchBackSlow
    \/ PitchDown
    \/ YawReverse
    \/ NavAlign
    \/ Verify
    \/ AttemptVerdict
    \/ StdReturn
    \/ HardReturn

(***************************************************************************)
(* Sun avoidance: scripts/SunAvoidance.py                                  *)
(* The keys (held, last_cmd, speed), the ap_ckb channel (last_note) and    *)
(* interdiction_check are those of the same autopilot.  The pitch loop's   *)
(* clock is in tenths, the fly-away clock in half seconds.                 *)
(***************************************************************************)
\* threshold (percent) when the destination is occluded, and otherwise
SunThresholdOccluded == 1

SunThresholdDefault == 5

\* "clear enough" level of the pitch loop and of the fly-away re-check
SunClearLevel == 5

\* degrees of the worst-case turn and the buffer (3 s, in tenths) of the failsafe
FailsafeDegrees == 120

FailsafeBuffer == 30

MaxSunDuration == 3

SunConfigs ==
    [SunAvoidanceDuration : {0, MaxSunDuration},
     pitchrate : {40, 120},
     sunpitchuptime : {-5, 0, 5}]

\* what sun_percent() can return
SunPercents == {0, 1, 2, 5, 6}

SunLocals ==
    /\ is_occluded = FALSE
    /\ threshold = 0
    /\ sun_pct = 0
    /\ current_sun = 0
    /\ sun_elapsed = 0
    /\ avoid_elapsed = 0
    /\ sun_phases = {}
    /\ sun_result = "unset"

SunInit ==
    /\ sun_pc = "detect"
    /\ sun_cfg \in SunConfigs
    /\ SunLocals

SunIdle ==
    /\ sun_pc = "idle"
    /\ sun_cfg = [SunAvoidanceDuration |-> 20, pitchrate |-> 33, sunpitchuptime |-> 0]
    /\ SunLocals

\* fail_safe_timeout = (120 / pitch_rate) + 3, in tenths
FailSafeTimeout == ((10 * FailsafeDegrees) \div sun_cfg.pitchrate) + FailsafeBuffer

\* faulty variant with the default threshold whatever the occlusion state
SunThresholdFixed(occ) == SunThresholdDefault

\* threshold = 1 if is_occluded else 5
SunThreshold(occ) == IF occ THEN SunThresholdOccluded ELSE SunThresholdDefault

\* the smart sun detection at the start of execute
SunDetect ==
    /\ sun_pc = "detect"
    /\ \E occ \in BOOLEAN, sp \in SunPercents :
          /\ is_occluded' = occ
          /\ threshold' = SunThreshold(occ)
          /\ sun_pct' = sp
          /\ IF sp <= SunThreshold(occ)
             THEN /\ sun_result' = "False"
                  /\ sun_pc' = "done"
                  /\ UNCHANGED last_note
             ELSE /\ last_note' = "Sun detected, avoiding"
                  /\ sun_pc' = "pitch_start"
                  /\ UNCHANGED sun_result
    /\ UNCHANGED <<sun_cfg, current_sun, sun_elapsed, avoid_elapsed, sun_phases>>
    /\ UNCHANGED <<held, speed, last_cmd, interdicted, intd_sampled>>
    /\ UNCHANGED sun_others

\* phase 1: press and hold pitch up
SunPitchStart ==
    /\ sun_pc = "pitch_start"
    /\ sun_elapsed' = 0
    /\ Press("PitchUpButton")
    /\ sun_phases' = sun_phases \cup {"pitch"}
    /\ intd_sampled' = FALSE
    /\ sun_pc' = "pitch_loop"
    /\ UNCHANGED <<sun_cfg, is_occluded, threshold, sun_pct, current_sun,
                   avoid_elapsed, sun_result>>
    /\ UNCHANGED <<speed, last_note, interdicted>>
    /\ UNCHANGED sun_others

\* faulty variant of the pitch loop without the failsafe
SunPitchPollNoFailsafe ==
    /\ sun_pc = "pitch_loop"
    /\ \E cs \in SunPercents, b \in BOOLEAN :
          /\ current_sun' = cs
          /\ IF cs <= SunClearLevel
             THEN /\ sun_pc' = "correct"
                  /\ UNCHANGED <<held, last_cmd, interdicted, intd_sampled, sun_elapsed>>
             ELSE /\ interdicted' = b
                  /\ intd_sampled' = TRUE
                  /\ IF b
                     THEN /\ Release("PitchUpButton")
                          /\ sun_pc' = "pitch_intd"
                          /\ UNCHANGED sun_elapsed
                     ELSE /\ sun_elapsed' = Min(sun_elapsed + 1, FailSafeTimeout + 2)
                          /\ sun_pc' = "pitch_loop"
                          /\ UNCHANGED <<held, last_cmd>>
    /\ UNCHANGED <<sun_cfg, is_occluded, threshold, sun_pct, avoid_elapsed,
                   sun_phases, sun_result>>
    /\ UNCHANGED <<speed, last_note>>
    /\ UNCHANGED sun_others

\* one iteration of the pitch loop: brightness, interdiction, failsafe, sleep(0.1)
SunPitchPoll ==
    /\ sun_pc = "pitch_loop"
    /\ \E cs \in SunPercents, b \in BOOLEAN, d \in 0..MaxJitter :
          /\ current_sun' = cs
          /\ IF cs <= SunClearLevel
             THEN /\ sun_pc' = "correct"
                  /\ UNCHANGED <<held, last_cmd, interdicted, intd_sampled, sun_elapsed>>
             ELSE /\ interdicted' = b
                  /\ intd_sampled' = TRUE
                  /\ IF b
                     THEN /\ Release("PitchUpButton")
                          /\ sun_pc' = "pitch_intd"
                          /\ UNCHANGED sun_elapsed
                     ELSE IF sun_elapsed + d > FailSafeTimeout
                     THEN /\ sun_elapsed' = sun_elapsed + d
                          /\ sun_pc' = "correct"
                          /\ UNCHANGED <<held, last_cmd>>
                     ELSE /\ sun_elapsed' = sun_elapsed + d + 1
                          /\ sun_pc' = "pitch_loop"
                          /\ UNCHANGED <<held, last_cmd>>
    /\ UNCHANGED <<sun_cfg, is_occluded, threshold, sun_pct, avoid_elapsed,
                   sun_phases, sun_result>>
    /\ UNCHANGED <<speed, last_note>>
    /\ UNCHANGED sun_others

\* faulty variant of the interrupt exit that leaves the speed as it is
SunPitchInterruptedNoZero ==
    /\ sun_pc = "pitch_intd"
    /\ sun_result' = "True"
    /\ sun_pc' = "done"
    /\ UNCHANGED <<sun_cfg, is_occluded, threshold, sun_pct, current_sun,
                   sun_elapsed, avoid_elapsed, sun_phases>>
    /\ UNCHANGED <<held, last_cmd, speed, last_note, interdicted, intd_sampled>>
    /\ UNCHANGED sun_others

\* interdicted in the pitch loop, pitch released: SetSpeedZero, return True
SunPitchInterrupted ==
    /\ sun_pc = "pitch_intd"
    /\ Command("SetSpeedZero")
    /\ speed' = "SetSpeedZero"
    /\ sun_result' = "True"
    /\ sun_pc' = "done"
    /\ UNCHANGED <<sun_cfg, is_occluded, threshold, sun_pct, current_sun,
                   sun_elapsed, avoid_elapsed, sun_phases>>
    /\ UNCHANGED <<last_note, interdicted, intd_sampled>>
    /\ UNCHANGED sun_others

\* faulty variant of the correction that leaves pitch up held
SunCorrectionNoRelease ==
    /\ sun_pc = "correct"
    /\ UNCHANGED <<held, last_cmd>>
    /\ sun_phases' = sun_phases \cup {"correction"}
    /\ current_sun' = 0                      \* the loop's locals are not read again
    /\ sun_elapsed' = 0
    /\ sun_pc' = IF sun_cfg.sunpitchuptime < 0 THEN "pitch_down" ELSE "fly_start"
    /\ UNCHANGED <<sun_cfg, is_occluded, threshold, sun_pct, avoid_elapsed,
                   sun_result>>
    /\ UNCHANGED <<speed, last_note, interdicted, intd_sampled>>
    /\ UNCHANGED sun_others

\* faulty variant that pitches down for any non-zero calibration value
SunCorrectionAnySign ==
    /\ sun_pc = "correct"
    /\ Release("PitchUpButton")
    /\ sun_phases' = sun_phases \cup {"correction"}
    /\ current_sun' = 0                      \* the loop's locals are not read again
    /\ sun_elapsed' = 0
    /\ sun_pc' = IF sun_cfg.sunpitchuptime # 0 THEN "pitch_down" ELSE "fly_start"
    /\ UNCHANGED <<sun_cfg, is_occluded, threshold, sun_pct, avoid_elapsed,
                   sun_result>>
    /\ UNCHANGED <<speed, last_note, interdicted, intd_sampled>>
    /\ UNCHANGED sun_others

\* the ship-specific adjustment: sleep(0.35), sleep if positive, release pitch up
SunCorrection ==
    /\ sun_pc = "correct"
    /\ Release("PitchUpButton")
    /\ sun_phases' = sun_phases \cup {"correction"}
    /\ current_sun' = 0                      \* the loop's locals are not read again
    /\ sun_elapsed' = 0
    /\ sun_pc' = IF sun_cfg.sunpitchuptime < 0 THEN "pitch_down" ELSE "fly_start"
    /\ UNCHANGED <<sun_cfg, is_occluded, threshold, sun_pct, avoid_elapsed,
                   sun_result>>
    /\ UNCHANGED <<speed, last_note, interdicted, intd_sampled>>
    /\ UNCHANGED sun_others

\* ships that run cool: pitch down for -sunpitchuptime
SunPitchDownPress ==
    /\ sun_pc = "pitch_down"
    /\ Press("PitchDownButton")
    /\ sun_pc' = "pitch_down_hold"
    /\ UNCHANGED <<sun_cfg, is_occluded, threshold, sun_pct, current_sun,
                   sun_elapsed, avoid_elapsed, sun_phases, sun_result>>
    /\ UNCHANGED <<speed, last_note, interdicted, intd_sampled>>
    /\ UNCHANGED sun_others

SunPitchDownRelease ==
    /\ sun_pc = "pitch_down_hold"
    /\ Release("PitchDownButton")
    /\ sun_pc' = "fly_start"
    /\ UNCHANGED <<sun_cfg, is_occluded, threshold, sun_pct, current_sun,
                   sun_elapsed, avoid_elapsed, sun_phases, sun_result>>
    /\ UNCHANGED <<speed, last_note, interdicted, intd_sampled>>
    /\ UNCHANGED sun_others

\* phase 2: full speed, start of the avoidance clock
SunFlyStart ==
    /\ sun_pc = "fly_start"
    /\ last_note' = "Flying away from sun"
    /\ Command("SetSpeed100")
    /\ speed' = "SetSpeed100"
    /\ avoid_elapsed' = 0
    /\ sun_phases' = sun_phases \cup {"fly"}
    /\ intd_sampled' = FALSE
    /\ sun_pc' = "fly_loop"
    /\ UNCHANGED <<sun_cfg, is_occluded, threshold, sun_pct, current_sun,
                   sun_elapsed, sun_result>>
    /\ UNCHANGED interdicted
    /\ UNCHANGED sun_others

\* loop test passed; the interdiction check of the fly-away
SunFlyInterdictionCheck ==
    /\ sun_pc = "fly_loop"
    /\ avoid_elapsed < 2 * sun_cfg.SunAvoidanceDuration
    /\ \E b \in BOOLEAN :
          /\ interdicted' = b
          /\ intd_sampled' = TRUE
          /\ IF b
             THEN /\ sun_result' = "True"
                  /\ sun_pc' = "done"
             ELSE /\ sun_pc' = "fly_sun"
                  /\ UNCHANGED sun_result
    /\ UNCHANGED <<sun_cfg, is_occluded, threshold, sun_pct, current_sun,
                   sun_elapsed, avoid_elapsed, sun_phases>>
    /\ UNCHANGED <<held, last_cmd, speed, last_note>>
    /\ UNCHANGED sun_others

\* faulty variant that goes back to the pitch-away phase when the sun is seen again
SunFlySunCheckRestart ==
    /\ sun_pc = "fly_sun"
    /\ \E cs \in SunPercents :
          IF cs > SunClearLevel
          THEN /\ sun_pc' = "pitch_start"
               /\ UNCHANGED <<avoid_elapsed, held, last_cmd>>
          ELSE /\ avoid_elapsed' = avoid_elapsed + 1
               /\ sun_pc' = "fly_loop"
               /\ UNCHANGED <<held, last_cmd>>
    /\ UNCHANGED <<sun_cfg, is_occluded, threshold, sun_pct, current_sun,
                   sun_elapsed, sun_phases, sun_result>>
    /\ UNCHANGED <<speed, last_note, interdicted, intd_sampled>>
    /\ UNCHANGED sun_others

\* the sun re-check of the fly-away, then sleep(0.5)
SunFlySunCheck ==
    /\ sun_pc = "fly_sun"
    /\ \E cs \in SunPercents :
          IF cs > SunClearLevel
          THEN /\ Press("PitchUpButton")
               /\ sun_pc' = "fly_pulse"
               /\ UNCHANGED avoid_elapsed
          ELSE /\ avoid_elapsed' = avoid_elapsed + 1
               /\ sun_pc' = "fly_loop"
               /\ UNCHANGED <<held, last_cmd>>
    /\ UNCHANGED <<sun_cfg, is_occluded, threshold, sun_pct, current_sun,
                   sun_elapsed, sun_phases, sun_result>>
    /\ UNCHANGED <<speed, last_note, interdicted, intd_sampled>>
    /\ UNCHANGED sun_others

\* faulty variant of the corrective pulse that keeps the key down
SunFlyPulseNoRelease ==
    /\ sun_pc = "fly_pulse"
    /\ avoid_elapsed' = avoid_elapsed + 3
    /\ sun_pc' = "fly_loop"
    /\ UNCHANGED <<sun_cfg, is_occluded, threshold, sun_pct, current_sun,
                   sun_elapsed, sun_phases, sun_result>>
    /\ UNCHANGED <<held, last_cmd, speed, last_note, interdicted, intd_sampled>>
    /\ UNCHANGED sun_others

\* sleep(1.0), release, sleep(0.5)
SunFlyPulseRelease ==
    /\ sun_pc = "fly_pulse"
    /\ Release("PitchUpButton")
    /\ avoid_elapsed' = avoid_elapsed + 3
    /\ sun_pc' = "fly_loop"
    /\ UNCHANGED <<sun_cfg, is_occluded, threshold, sun_pct, current_sun,
                   sun_elapsed, sun_phases, sun_result>>
    /\ UNCHANGED <<speed, last_note, interdicted, intd_sampled>>
    /\ UNCHANGED sun_others

\* faulty variant that returns without reducing the speed
SunFlyExitFullSpeed ==
    /\ sun_pc = "fly_loop"
    /\ avoid_elapsed >= 2 * sun_cfg.SunAvoidanceDuration
    /\ last_note' = "Sun avoidance complete"
    /\ UNCHANGED <<held, last_cmd, speed>>
    /\ sun_result' = "True"
    /\ sun_pc' = "done"
    /\ UNCHANGED <<sun_cfg, is_occluded, threshold, sun_pct, current_sun,
                   sun_elapsed, avoid_elapsed, sun_phases>>
    /\ UNCHANGED <<interdicted, intd_sampled>>
    /\ UNCHANGED sun_others

\* the while condition fails: SetSpeed50, return True
SunFlyExit ==
    /\ sun_pc = "fly_loop"
    /\ avoid_elapsed >= 2 * sun_cfg.SunAvoidanceDuration
    /\ last_note' = "Sun avoidance complete"
    /\ Command("SetSpeed50")
    /\ speed' = "SetSpeed50"
    /\ sun_result' = "True"
    /\ sun_pc' = "done"
    /\ UNCHANGED <<sun_cfg, is_occluded, threshold, sun_pct, current_sun,
                   sun_elapsed, avoid_elapsed, sun_phases>>
    /\ UNCHANGED <<interdicted, intd_sampled>>
    /\ UNCHANGED sun_others

SunNext ==
    \/ SunDetect
    \/ SunPitchStart
    \/ SunPitchPoll
    \/ SunPitchInterrupted
    \/ SunCorrection
    \/ SunPitchDownPress
    \/ SunPitchDownRelease
    \/ SunFlyStart
    \/ SunFlyInterdictionCheck
    \/ SunFlySunCheck
    \/ SunFlyPulseRelease
    \/ SunFlyExit

(***************************************************************************)
(* Distance parsing: EDNavigationPanel.get_distance_to_station and         *)
(* parse_distance.  A text is a sequence of one-character strings; a float *)
(* is kept exactly, as a mantissa and a number of decimal places, and a    *)
(* distance as a fraction num / den of kilometres.                         *)
(***************************************************************************)
MaxTextLen == 4

Digits == {"0", "1", "2", "3", "4", "5", "7", "8"}

DigitVal(c) ==
    CASE c = "0" -> 0 [] c = "1" -> 1 [] c = "2" -> 2 [] c = "3" -> 3 [] c = "4" -> 4
      [] c = "5" -> 5 [] c = "7" -> 7 [] c = "8" -> 8

\* the characters the enumerated texts are made of
Alphabet == {"4", ".", "k", "m", "M", "l", "s", " "}

Texts == UNION {[1..n -> Alphabet] : n \in 0..MaxTextLen}

\* the texts of the docstring, of the comments and of test_parse_dist.py
ExampleTexts ==
    {<<"7", ".", "5", "k", "m">>,
     <<"4", ".", ".", "5", "k", "m">>,
     <<"1", ".", "2", "M", "m">>,
     <<"8", "0", "0", "m">>,
     <<"4", ".", ".", ".", "5", "k", "m">>,
     <<"1", ".", "2", ".", "3", "k", "m">>}

\* what the OCR can give: nothing, one text, or a name and a distance
OcrLists ==
    {<<>>} \cup {<<t>> : t \in Texts \cup ExampleTexts}
           \cup {<<a, b>> : a \in {<<"s">>, <<"4">>}, b \in {<<"4", "l", "s">>, <<"k", "m">>}}

NoValue == [mant |-> 0, places |-> 0]

None == [none |-> TRUE, num |-> 0, den |-> 1]

ParseLocals ==
    /\ text = <<>>
    /\ val_str = <<>>
    /\ unit = "none"
    /\ value = NoValue
    /\ distance = None

ParseInit ==
    /\ parse_pc = "ocr"
    /\ ocr_textlist \in OcrLists
    /\ ParseLocals

ParseIdle ==
    /\ parse_pc = "idle"
    /\ ocr_textlist = <<>>
    /\ ParseLocals

\* " ".join(ocr_textlist)
RECURSIVE JoinText(_)
JoinText(l) ==
    IF Len(l) = 0 THEN <<>>
    ELSE IF Len(l) = 1 THEN l[1]
    ELSE l[1] \o <<" ">> \o JoinText(Tail(l))

\* the character class [\d\.] and \s
IsNumChar(c) == c \in Digits \cup {"."}

IsSpace(c) == c = " "

\* the index after the longest run of [\d\.] from p, and of \s from p
RECURSIVE RunEnd(_, _)
RunEnd(t, p) == IF p <= Len(t) /\ IsNumChar(t[p]) THEN RunEnd(t, p + 1) ELSE p

RECURSIVE SkipSpace(_, _)
SkipSpace(t, p) == IF p <= Len(t) /\ IsSpace(t[p]) THEN SkipSpace(t, p + 1) ELSE p

\* the alternation (Mm|km|m|ls) at p, tried in that order
UnitAt(t, p) ==
    IF p + 1 <= Len(t) /\ t[p] = "M" /\ t[p + 1] = "m" THEN "Mm"
    ELSE IF p + 1 <= Len(t) /\ t[p] = "k" /\ t[p + 1] = "m" THEN "km"
    ELSE IF p <= Len(t) /\ t[p] = "m" THEN "m"
    ELSE IF p + 1 <= Len(t) /\ t[p] = "l" /\ t[p + 1] = "s" THEN "ls"
    ELSE "none"

NoMatch == [found |-> FALSE, group1 |-> <<>>, group2 |-> "none"]

\* the greedy group ([\d\.]+) from p, given back one character at a time from
\* q down to p + 1, then \s* and the unit
RECURSIVE MatchFrom(_, _, _)
MatchFrom(t, p, q) ==
    IF q <= p THEN NoMatch
    ELSE LET u == UnitAt(t, SkipSpace(t, q))
         IN  IF u # "none"
             THEN [found |-> TRUE, group1 |-> SubSeq(t, p, q - 1), group2 |-> u]
             ELSE MatchFrom(t, p, q - 1)

\* search: the match at the leftmost position that has one
RECURSIVE SearchFrom(_, _)
SearchFrom(t, p) ==
    IF p > Len(t) THEN NoMatch
    ELSE LET m == MatchFrom(t, p, RunEnd(t, p))
         IN  IF m.found THEN m ELSE SearchFrom(t, p + 1)

\* ".." in val_str
HasDoubleDot(s) == \E k \in 1..(Len(s) - 1) : s[k] = "." /\ s[k + 1] = "."

\* faulty variant without the repair of the doubled decimal point
ReplaceNothing(s) == s

\* val_str.replace("..", "."): the non-overlapping occurrences, left to right
RECURSIVE ReplaceDoubleDot(_)
ReplaceDoubleDot(s) ==
    IF Len(s) < 2 THEN s
    ELSE IF s[1] = "." /\ s[2] = "."
         THEN <<".">> \o ReplaceDoubleDot(SubSeq(s, 3, Len(s)))
         ELSE <<s[1]>> \o ReplaceDoubleDot(Tail(s))

\* float(s) for s made of digits and dots: ValueError unless it has a digit
\* and at most one dot
CountDots(s) == Cardinality({k \in 1..Len(s) : s[k] = "."})

IsFloat(s) == CountDots(s) <= 1 /\ CountDots(s) < Len(s)

RECURSIVE Pow10(_)
Pow10(n) == IF n = 0 THEN 1 ELSE 10 * Pow10(n - 1)

\* the digits of s read as a decimal integer, the dot skipped
RECURSIVE Mantissa(_, _)
Mantissa(s, acc) ==
    IF Len(s) = 0 THEN acc
    ELSE IF s[1] = "." THEN Mantissa(Tail(s), acc)
    ELSE Mantissa(Tail(s), 10 * acc + DigitVal(s[1]))

\* the number of digits after the dot
RECURSIVE Places(_)
Places(s) ==
    IF Len(s) = 0 THEN 0
    ELSE IF s[1] = "." THEN Len(s) - 1
    ELSE Places(Tail(s))

FloatOf(s) == [mant |-> Mantissa(s, 0), places |-> Places(s)]

\* kilometres in a light second, and metres in a kilometre
LsToKm == 299792

Kilo == 1000

\* the if / elif chain on the unit
Convert(v, u) ==
    CASE u = "Mm" -> [none |-> FALSE, num |-> v.mant * Kilo, den |-> Pow10(v.places)]
      [] u = "km" -> [none |-> FALSE, num |-> v.mant, den |-> Pow10(v.places)]
      [] u = "m"  -> [none |-> FALSE, num |-> v.mant, den |-> Pow10(v.places) * Kilo]
      [] u = "ls" -> [none |-> FALSE, num |-> v.mant * LsToKm, den |-> Pow10(v.places)]
      [] OTHER -> None

\* get_distance_to_station after the OCR: join and parse, or None
GetDistanceToStation ==
    /\ parse_pc = "ocr"
    /\ IF ocr_textlist # <<>>
       THEN /\ text' = JoinText(ocr_textlist)
            /\ parse_pc' = "search"
            /\ UNCHANGED distance
       ELSE /\ distance' = None
            /\ parse_pc' = "done"
            /\ UNCHANGED text
    /\ UNCHANGED <<ocr_textlist, val_str, unit, value>>
    /\ UNCHANGED parse_others

\* match = search(...); no match: warning, return None
ParseSearch ==
    /\ parse_pc = "search"
    /\ LET match == SearchFrom(text, 1)
       IN  IF match.found
           THEN /\ val_str' = match.group1
                /\ unit' = match.group2
                /\ parse_pc' = "repair"
                /\ UNCHANGED distance
           ELSE /\ distance' = None
                /\ parse_pc' = "done"
                /\ UNCHANGED <<val_str, unit>>
    /\ UNCHANGED <<ocr_textlist, text, value>>
    /\ UNCHANGED parse_others

\* the fix of the OCR double dot
ParseRepair ==
    /\ parse_pc = "repair"
    /\ val_str' = IF HasDoubleDot(val_str) THEN ReplaceDoubleDot(val_str) ELSE val_str
    /\ parse_pc' = "float"
    /\ UNCHANGED <<ocr_textlist, text, unit, value, distance>>
    /\ UNCHANGED parse_others

\* faulty variant in which a failed conversion gives zero
ParseFloatZero ==
    /\ parse_pc = "float"
    /\ value' = IF IsFloat(val_str) THEN FloatOf(val_str) ELSE NoValue
    /\ parse_pc' = "convert"
    /\ UNCHANGED <<ocr_textlist, text, val_str, unit, distance>>
    /\ UNCHANGED parse_others

\* value = float(val_str); ValueError: warning, return None
ParseFloat ==
    /\ parse_pc = "float"
    /\ IF IsFloat(val_str)
       THEN /\ value' = FloatOf(val_str)
            /\ parse_pc' = "convert"
            /\ UNCHANGED distance
       ELSE /\ distance' = None
            /\ parse_pc' = "done"
            /\ UNCHANGED value
    /\ UNCHANGED <<ocr_textlist, text, val_str, unit>>
    /\ UNCHANGED parse_others

\* the conversion to kilometres
ParseConvert ==
    /\ parse_pc = "convert"
    /\ distance' = Convert(value, unit)
    /\ parse_pc' = "done"
    /\ UNCHANGED <<ocr_textlist, text, val_str, unit, value>>
    /\ UNCHANGED parse_others

ParseNext ==
    \/ GetDistanceToStation
    \/ ParseSearch
    \/ ParseRepair
    \/ ParseFloat
    \/ ParseConvert

(***************************************************************************)
(* Navigation panel tabs: EDNavigationPanel.navigate_to_tab and its two    *)
(* callers.  The panel is the game's: CycleNextPanel and                   *)
(* CyclePreviousPanel move it one tab along the cyclic order Navigation,   *)
(* Transactions, Contacts, Target.                                         *)
(***************************************************************************)
navigation_tab_text == "NAVIGATION"

transactions_tab_text == "TRANSACTIONS"

contacts_tab_text == "CONTACTS"

target_tab_text == "TARGET"

\* the tabs in the order the panel cycles through them
TabOrder == <<navigation_tab_text, transactions_tab_text, contacts_tab_text,
              target_tab_text>>

TabTexts == {TabOrder[k] : k \in 1..Len(TabOrder)}

TabIndex(t) == CHOOSE k \in 1..Len(TabOrder) : TabOrder[k] = t

\* the tab shown after a key was sent n times from tab t
CycleFrom(t, key, n) ==
    LET step == IF key = "CycleNextPanel" THEN n ELSE Len(TabOrder) * n - n
    IN  TabOrder[((TabIndex(t) - 1 + step) % Len(TabOrder)) + 1]

\* the tab shown after a sequence of keys
RECURSIVE PanelAfter(_, _)
PanelAfter(t, keys) ==
    IF keys = <<>> THEN t
    ELSE PanelAfter(CycleFrom(t, keys[1].name, keys[1].arg), Tail(keys))

TabLocals ==
    /\ img_selected = FALSE
    /\ tab_ocr = {}
    /\ tab_text = ""
    /\ tab_keys = <<>>
    /\ acted_on = ""

\* open_nav_panel has run: the panel shows whatever tab it was left on
TabInit ==
    /\ tab_pc = "capture"
    /\ panel \in TabTexts
    /\ start_tab = panel
    /\ \/ /\ tab_caller \in {"request_docking", "get_distance_to_station"}
          /\ target_tab = contacts_tab_text
       \/ /\ tab_caller = "navigate_to_tab"
          /\ target_tab \in TabTexts
    /\ TabLocals

TabIdle ==
    /\ tab_pc = "idle"
    /\ tab_caller = "none"
    /\ panel = navigation_tab_text
    /\ start_tab = navigation_tab_text
    /\ target_tab = contacts_tab_text
    /\ TabLocals

\* the four tests of the OCR string, each overwriting the one before
TabTextOf(found) ==
    IF target_tab_text \in found THEN target_tab_text
    ELSE IF contacts_tab_text \in found THEN contacts_tab_text
    ELSE IF transactions_tab_text \in found THEN transactions_tab_text
    ELSE IF navigation_tab_text \in found THEN navigation_tab_text
    ELSE ""

\* the keys of the first if / elif chain
FirstBlockKeys(tt, tgt) ==
    IF tt = ""
    THEN <<Cmd("CycleNextPanel", 1), Cmd("CycleNextPanel", 1)>>
    ELSE IF tt = navigation_tab_text
    THEN (IF tgt = contacts_tab_text THEN <<Cmd("CycleNextPanel", 2)>>
          ELSE IF tgt = transactions_tab_text THEN <<Cmd("CycleNextPanel", 1)>>
          ELSE <<>>)
    ELSE IF tt = transactions_tab_text
    THEN (IF tgt = contacts_tab_text THEN <<Cmd("CycleNextPanel", 1)>>
          ELSE IF tgt = navigation_tab_text THEN <<Cmd("CyclePreviousPanel", 1)>>
          ELSE <<>>)
    ELSE IF tt = contacts_tab_text
    THEN (IF tgt = navigation_tab_text THEN <<Cmd("CyclePreviousPanel", 2)>>
          ELSE <<>>)
    ELSE (IF tgt = contacts_tab_text THEN <<Cmd("CyclePreviousPanel", 1)>>
          ELSE IF tgt = navigation_tab_text THEN <<Cmd("CycleNextPanel", 1)>>
          ELSE <<>>)

\* the keys of the second block, for the Contacts target only
ContactsBlockKeys(tt, tgt) ==
    IF tgt # contacts_tab_text THEN <<>>
    ELSE IF tt = navigation_tab_text THEN <<Cmd("CycleNextPanel", 2)>>
    ELSE IF tt = transactions_tab_text THEN <<Cmd("CycleNextPanel", 1)>>
    ELSE IF tt = target_tab_text THEN <<Cmd("CycleNextPanel", 4)>>
    ELSE <<>>

\* capture the tab bar, find the highlighted item, test the OCR string
TabCapture ==
    /\ tab_pc = "capture"
    /\ \E sel \in BOOLEAN, found \in SUBSET TabTexts :
          /\ img_selected' = sel
          /\ tab_ocr' = IF sel THEN found ELSE {}
          /\ tab_text' = IF sel THEN TabTextOf(found) ELSE ""
    /\ tab_pc' = "first"
    /\ UNCHANGED <<tab_caller, panel, start_tab, target_tab, tab_keys, acted_on>>
    /\ UNCHANGED tab_others

\* if tab_text == "": ... elif ...: the relative moves
TabFirstBlock ==
    /\ tab_pc = "first"
    /\ tab_keys' = tab_keys \o FirstBlockKeys(tab_text, target_tab)
    /\ panel' = PanelAfter(panel, FirstBlockKeys(tab_text, target_tab))
    /\ tab_pc' = "second"
    /\ UNCHANGED <<tab_caller, start_tab, target_tab, img_selected, tab_ocr, tab_text,
                   acted_on>>
    /\ UNCHANGED tab_others

\* if target_tab == self.contacts_tab_text: the moves for Contacts again
TabContactsBlock ==
    /\ tab_pc = "second"
    /\ tab_keys' = tab_keys \o ContactsBlockKeys(tab_text, target_tab)
    /\ panel' = PanelAfter(panel, ContactsBlockKeys(tab_text, target_tab))
    /\ tab_pc' = "arrived"
    /\ UNCHANGED <<tab_caller, start_tab, target_tab, img_selected, tab_ocr, tab_text,
                   acted_on>>
    /\ UNCHANGED tab_others

\* navigate_to_tab called for its own sake returns
TabReturn ==
    /\ tab_pc = "arrived"
    /\ tab_caller = "navigate_to_tab"
    /\ tab_pc' = "done"
    /\ UNCHANGED <<tab_caller, panel, start_tab, target_tab, img_selected, tab_ocr,
                   tab_text, tab_keys, acted_on>>
    /\ UNCHANGED tab_others

\* the caller's UI_Up (and UI_Right, UI_Select) go to the tab that is shown
TabActOnPanel ==
    /\ tab_pc = "arrived"
    /\ tab_caller \in {"request_docking", "get_distance_to_station"}
    /\ acted_on' = panel
    /\ tab_pc' = IF tab_caller = "request_docking" THEN "back" ELSE "done"
    /\ UNCHANGED <<tab_caller, panel, start_tab, target_tab, img_selected, tab_ocr,
                   tab_text, tab_keys>>
    /\ UNCHANGED tab_others

\* request_docking: "Go back to NAVIGATION tab", CycleNextPanel twice
TabBackToNavigation ==
    /\ tab_pc = "back"
    /\ tab_keys' = tab_keys \o <<Cmd("CycleNextPanel", 1), Cmd("CycleNextPanel", 1)>>
    /\ panel' = PanelAfter(panel, <<Cmd("CycleNextPanel", 2)>>)
    /\ tab_pc' = "done"
    /\ UNCHANGED <<tab_caller, start_tab, target_tab, img_selected, tab_ocr, tab_text,
                   acted_on>>
    /\ UNCHANGED tab_others

TabNext ==
    \/ TabCapture
    \/ TabFirstBlock
    \/ TabContactsBlock
    \/ TabReturn
    \/ TabActOnPanel
    \/ TabBackToNavigation

\* SupercruiseAvoidance.execute runs; nothing else is in progress
Init == SInit /\ CIdle /\ SunIdle /\ ParseIdle /\ TabIdle

Next == SNext

Spec == Init /\ [][Next]_vars

\* every loop of execute sleeps and the clock advances: a run keeps stepping
SpecFair == Init /\ [][Next]_vars /\ WF_vars(Next)

\* one classification runs; the controllers are not running
InitClassify == CInit /\ SIdle /\ SunIdle /\ ParseIdle /\ TabIdle

NextClassify == CNext

SpecClassify == InitClassify /\ [][NextClassify]_vars

\* SunAvoidance.execute runs; nothing else is in progress
InitSun == SunInit /\ SIdle /\ CIdle /\ ParseIdle /\ TabIdle

NextSun == SunNext

SpecSun == InitSun /\ [][NextSun]_vars

\* the loops sleep and the clock advances: a run of execute keeps stepping
SpecSunFair == InitSun /\ [][NextSun]_vars /\ WF_vars(NextSun)

\* one of the two controllers runs
InitControllers ==
    CIdle /\ ParseIdle /\ TabIdle /\ ((SInit /\ SunIdle) \/ (SIdle /\ SunInit))

NextControllers == SNext \/ SunNext

SpecControllers == InitControllers /\ [][NextControllers]_vars

\* get_distance_to_station runs on one OCR result; nothing else is in progress
InitParse == ParseInit /\ CIdle /\ SIdle /\ SunIdle /\ TabIdle

NextParse == ParseNext

SpecParse == InitParse /\ [][NextParse]_vars

\* one caller of navigate_to_tab runs
InitTabs == TabInit /\ CIdle /\ SIdle /\ SunIdle /\ ParseIdle

NextTabs == TabNext

SpecTabs == InitTabs /\ [][NextTabs]_vars

(***************************************************************************)
(* Properties of the classifier, checked under SpecClassify                *)
(***************************************************************************)
\* the classification returned a verdict (no call raised on the way)
Classified == cpc = "done" /\ cret[1] # "None"

\* C1. Veto invariant: whenever the solid-target score, the maximum of the
\* native pass and the x3 pass, is at least the target threshold, the verdict
\* is "not occluded" with the veto reason, whatever the occluded-template
\* scores and the ring detector give.
C1_VetoInvariant ==
    (Classified /\ (frame.tp1 >= frame.target_thresh \/ frame.tx3 >= frame.target_thresh))
        => /\ final_occluded = FALSE
           /\ reason = "veto"
           /\ cret[1] = "False"

\* a veto decided by the x3 pass alone, against an occluded-template match
\* and a ring the detector would report
C1_Witness ==
    /\ Classified
    /\ frame.tp1 < frame.target_thresh
    /\ frame.tx3 >= frame.target_thresh
    /\ occ_template_detected
    /\ frame.ring_found
    /\ reason = "veto"

\* C2. Priority invariant: the ring detector is called only when the
\* occluded-template score (maximum of the two passes) is below its
\* threshold; when the score meets the threshold the detector is not called
\* and the verdict does not use its output.
C2_PriorityInvariant ==
    LET occ_score == IF frame.op1 >= frame.ox3 THEN frame.op1 ELSE frame.ox3 IN
    /\ ring_calls <= 1
    /\ ring_calls > 0 => (occ_calls = 1 /\ occ_score < frame.target_occluded_thresh)
    /\ (cpc \in {"final", "done"} /\ cret[1] # "None"
          /\ occ_score >= frame.target_occluded_thresh)
        => /\ ring_calls = 0
           /\ circle_found = FALSE
           /\ circle_score = 0
           /\ reason # "shape"

\* the occluded template matched on a frame where the detector would have
\* reported a ring: it was not asked
C2_Witness ==
    /\ Classified
    /\ occ_template_detected
    /\ ~target_visible
    /\ frame.ring_found
    /\ frame.ring_score = 1
    /\ ring_calls = 0
    /\ reason = "template"

\* C3. Decision table: with the solid-target score below its threshold, the
\* verdict is occluded/template if the occluded-template score meets its
\* threshold, else occluded/shape if the ring detector reports found, else
\* not occluded/none; nothing else of the frame changes it.
C3_DecisionTable ==
    LET occ_hit == frame.op1 >= frame.target_occluded_thresh
                   \/ frame.ox3 >= frame.target_occluded_thresh
    IN (Classified /\ frame.tp1 < frame.target_thresh /\ frame.tx3 < frame.target_thresh)
        => /\ occ_hit => (final_occluded /\ reason = "template")
           /\ (~occ_hit /\ frame.ring_found) => (final_occluded /\ reason = "shape")
           /\ (~occ_hit /\ ~frame.ring_found) => (~final_occluded /\ reason = "none")
           /\ cret[1] = BoolStr(final_occluded)

\* the shape fallback decides
C3_Witness ==
    /\ Classified
    /\ ~target_visible
    /\ ~occ_template_detected
    /\ ring_calls = 1
    /\ final_occluded
    /\ reason = "shape"

(***************************************************************************)
(* Properties of SupercruiseAvoidance.execute, checked under Spec          *)
(***************************************************************************)
\* C4. Guard short-circuit: when get_destination_offset gives an offset at
\* the start of execute, execute returns True, no flight command has been
\* issued and no attempt has been started.
C4_GuardShortCircuit ==
    guard_hit
        => /\ pc = "done"
           /\ result = "True"
           /\ last_cmd = "none"
           /\ held = {}
           /\ speed = "unset"
           /\ calls = <<>>
           /\ n_std = 0
           /\ n_hard = 0

C4_Witness ==
    /\ guard_hit
    /\ pc = "done"
    /\ last_note = "Avoidance aborted: Target visible"

\* C5. Escape-heading gate: the acquisition succeeds only from a poll whose
\* reading has compass_conf > 0.4, nav_conf > 0.4, y <= -edge_threshold and,
\* if RequireBehindPip, z < 0, at a local elapsed >= MinPitchSeconds; a poll
\* that fails one of these keeps the loop going, and an acquisition that
\* ends without success ends at the timeout.
C5_EscapeHeadingGate ==
    LET all_hold ==
            /\ nav.compass_conf > 4
            /\ nav.nav_conf > 4
            /\ nav.y <= -config.SupercruiseAvoidanceCompassEdgeThreshold
            /\ (config.SupercruiseAvoidanceRequireBehindPip => nav.z < 0)
            /\ elapsed >= config.SupercruiseAvoidanceMinPitchSeconds
    IN /\ pc = "acq_loop" => ~gate_satisfied
       /\ (pc = "acq_exit" /\ gate_satisfied) => (nav # NoNav /\ all_hold)
       /\ (pc \in {"acq_loop", "acq_exit"} /\ nav # NoNav /\ ~gate_satisfied) => ~all_hold
       /\ (pc = "acq_exit" /\ ~gate_satisfied)
            => acq_elapsed >= config.SupercruiseAvoidanceEscapeHeadingTimeoutSeconds

\* the gate is satisfied after the minimum pitch time, behind pip required
C5_Witness ==
    /\ pc = "acq_exit"
    /\ gate_satisfied
    /\ config.SupercruiseAvoidanceMinPitchSeconds = 2
    /\ config.SupercruiseAvoidanceRequireBehindPip
    /\ elapsed >= 2
    /\ nav.z < 0

\* C6. Fly-away duration guarantee: the fly-away loop goes on to the pitch
\* back only when the elapsed time has reached the attempt's duration, and
\* otherwise ends only by interdiction; is_destination_occluded is not called
\* during the loop.
C6_FlyAwayGuaranteed ==
    /\ pc = "pitch_back" => fly_elapsed >= 2 * att.duration
    /\ pc \in {"fly_start", "fly_loop", "fly_pulse", "fly_intd", "pitch_back"}
         => occ_reads = 0
    /\ (pc = "att_return" /\ occ_reads = 0) => interdicted

\* a star was seen during the fly-away and the loop still ran its duration
C6_Witness ==
    /\ pc = "pitch_back"
    /\ att.duration >= 10
    /\ last_note = "Star detected, pitching up"
    /\ fly_elapsed >= 2 * att.duration

\* C7. Duration escalation: standard attempt k (from 0) is given the
\* duration min(DurationBase + 30 k, DurationMax); the durations are
\* non-decreasing and never above DurationMax.
C7_DurationEscalation ==
    \A k \in 1..Len(calls) :
        ~calls[k].hard
          => LET raw == config.SupercruiseAvoidanceDurationBase + 30 * (k - 1)
                 cap == config.SupercruiseAvoidanceDurationMax
             IN /\ calls[k].idx = k - 1
                /\ calls[k].duration = (IF raw < cap THEN raw ELSE cap)
                /\ calls[k].duration <= cap
                /\ k > 1 => calls[k - 1].duration <= calls[k].duration

\* three standard attempts: the second longer and below the cap, the third capped
C7_Witness ==
    /\ Len(calls) >= 3
    /\ ~calls[3].hard
    /\ calls[1].duration < calls[2].duration
    /\ calls[2].duration < calls[3].duration
    /\ calls[3].duration = config.SupercruiseAvoidanceDurationMax

\* C8. Yaw-drift escalation: standard attempt k (from 0) is given the yaw
\* drift k times the configured increment (angles in half degrees).
C8_YawEscalation ==
    \A k \in 1..Len(calls) :
        ~calls[k].hard
          => calls[k].yaw = 2 * config.SupercruiseAvoidanceYawDegrees * (k - 1)

\* C9. Retry protocol: past the guard, at most max_attempts standard
\* attempts are started, none after a standard attempt returned success, and
\* the hard escape is started once, exactly when all max_attempts standard
\* attempts returned failure.
C9_RetryProtocol ==
    /\ n_std <= config.SupercruiseAvoidanceMaxAttempts
    /\ n_hard <= 1
    /\ n_succ >= 1 => (pc = "done" /\ n_succ = 1 /\ n_std = n_fail + 1 /\ n_hard = 0)
    /\ n_hard = 1 => /\ n_fail = config.SupercruiseAvoidanceMaxAttempts
                     /\ n_std = config.SupercruiseAvoidanceMaxAttempts
                     /\ n_succ = 0
    /\ (pc = "done" /\ ~guard_hit)
         => /\ n_hard = 1 <=> n_fail = config.SupercruiseAvoidanceMaxAttempts
            /\ n_std = n_fail + n_succ
            /\ Len(calls) = n_std + n_hard

\* three standard attempts failed and the hard escape ran
C9_Witness ==
    /\ pc = "done"
    /\ config.SupercruiseAvoidanceMaxAttempts = 3
    /\ n_fail = 3
    /\ n_hard = 1
    /\ Len(calls) = 4

C11_ReturnsFalseWhenNotCleared ==
    (pc = "done" /\ occ_reads > 0 /\ occluded) => result = "False"

\* C12. Press/release pairing: when SunAvoidance.execute or
\* SupercruiseAvoidance.execute returns, or an attempt of the latter returns,
\* every key that was pressed has been released: no button is held.
C12_PressReleasePaired ==
    (pc \in {"att_return", "done"} \/ sun_pc = "done") => held = {}

\* the sun maneuver pressed pitch up and pitch down, flew away and returned
C12_Witness ==
    /\ sun_pc = "done"
    /\ sun_phases = {"pitch", "correction", "fly"}
    /\ sun_cfg.sunpitchuptime < 0
    /\ last_note = "Sun avoidance complete"
    /\ held = {}

\* C13. Interrupt sampling: after each completed iteration of the sun pitch
\* loop, the sun fly-away loop, the escape-heading acquisition loop and the
\* supercruise fly-away loop, interdiction_check has been called in that
\* iteration.
C13_EveryLoopSamplesInterdiction ==
    /\ (sun_pc = "pitch_loop" /\ sun_elapsed > 0) => intd_sampled
    /\ (sun_pc = "fly_loop" /\ avoid_elapsed > 0) => intd_sampled
    /\ (pc = "acq_loop" /\ acq_elapsed > 0) => intd_sampled
    /\ (pc = "fly_loop" /\ fly_elapsed > 0) => intd_sampled

\* C14. Controlled shutdown on interrupt: a controller that returned because
\* interdiction_check was true holds no key and its last speed command is
\* SetSpeedZero or SetSpeed50, not SetSpeed100.
C14_ControlledShutdown ==
    /\ (sun_pc = "done" /\ interdicted)
         => (held = {} /\ speed \in {"SetSpeedZero", "SetSpeed50"})
    /\ (pc \in {"att_return", "done"} /\ interdicted)
         => (held = {} /\ speed \in {"SetSpeedZero", "SetSpeed50"})

\* C15. Supercruise interrupt abort: once interdiction_check returned true in
\* the fly-away of an attempt, the attempt returns True without pitch back,
\* yaw reversal, nav_align or occlusion re-check, no further attempt or hard
\* escape is started, and execute returns True.
C15_InterruptAbortsManeuver ==
    interdicted =>
        /\ pc \in {"att_return", "done"}
        /\ att_ret = TRUE
        /\ occ_reads = 0
        /\ last_cmd \in {"SetSpeed100", "PitchUpButton"}
        /\ speed = "SetSpeed100"
        /\ Len(calls) = n_std + n_hard
        /\ calls[Len(calls)] = att
        /\ (~att.hard => (n_hard = 0 /\ n_std = att.idx + 1))
        /\ (pc = "done" => result = "True")

\* the second standard attempt was interdicted and execute returned
C15_Witness ==
    /\ pc = "done"
    /\ interdicted
    /\ ~att.hard
    /\ att.idx = 1
    /\ n_fail = 1
    /\ n_hard = 0
    /\ result = "True"

\* C16. Sun detection threshold: the threshold is 1 percent when the
\* destination is occluded and 5 percent otherwise; a reading at or below it
\* returns False with no key or speed command sent, and the maneuver is
\* started exactly when the reading is above it.
C16_SunThreshold ==
    sun_pc \notin {"idle", "detect"} =>
        LET t == IF is_occluded THEN 1 ELSE 5 IN
        /\ threshold = t
        /\ sun_pct <= t => /\ sun_pc = "done"
                           /\ sun_result = "False"
                           /\ last_cmd = "none"
                           /\ speed = "unset"
                           /\ held = {}
                           /\ sun_phases = {}
        /\ sun_pct > t => /\ sun_result # "False"
                          /\ last_note # "none"
                          /\ (sun_pc = "pitch_start" \/ "pitch" \in sun_phases)

\* occluded destination and 2 percent of sun: the maneuver has started
C16_Witness ==
    /\ is_occluded
    /\ sun_pct = 2
    /\ sun_pc = "pitch_loop"
    /\ "PitchUpButton" \in held

\* C17. Sun pitch-loop interrupt: after interdiction_check is true in the
\* pitch loop, PitchUpButton is released, then SetSpeedZero is sent and True
\* is returned; the correction and the fly-away never run after it.
C17_PitchLoopInterrupt ==
    /\ sun_pc = "pitch_intd" => /\ interdicted
                                /\ last_cmd = "PitchUpButton"
                                /\ held = {}
                                /\ sun_phases = {"pitch"}
    /\ interdicted => sun_pc \in {"pitch_intd", "done"}
    /\ (sun_pc = "done" /\ interdicted /\ "fly" \notin sun_phases)
         => /\ sun_phases = {"pitch"}
            /\ last_cmd = "SetSpeedZero"
            /\ speed = "SetSpeedZero"
            /\ held = {}
            /\ sun_result = "True"
            /\ last_note = "Sun detected, avoiding"

\* interdicted in the pitch loop after some time of pitching, and returned
C17_Witness ==
    /\ sun_pc = "done"
    /\ interdicted
    /\ sun_phases = {"pitch"}
    /\ sun_elapsed > 0
    /\ last_cmd = "SetSpeedZero"
    /\ sun_result = "True"

\* C18. Sun pitch-loop failsafe: the pitch loop does not start another
\* iteration's sleep once the elapsed time exceeds (120 / pitch_rate) + 3
\* seconds; whatever the readings it ends (in the correction, or by
\* interdiction), the correction leads on to the fly-away, and the pitch
\* phase is not entered again.
C18_FailsafeTerminates ==
    /\ [](sun_pc = "pitch_loop"
            => sun_elapsed <= ((1200 \div sun_cfg.pitchrate) + 30) + 1)
    /\ (sun_pc = "pitch_loop") ~> (sun_pc \in {"correct", "pitch_intd"})
    /\ (sun_pc = "correct") ~> (sun_pc = "fly_loop")
    /\ []("correction" \in sun_phases => sun_pc \notin {"pitch_start", "pitch_loop"})

\* the loop was left by the failsafe with the sun still at 6 percent
C18_Witness ==
    /\ sun_pc = "correct"
    /\ current_sun > 5
    /\ ~interdicted
    /\ sun_elapsed > (1200 \div sun_cfg.pitchrate) + 30

\* ---- what the distance claims speak of, stated on the text itself ----
UnitWord(u) ==
    CASE u = "Mm" -> <<"M", "m">> [] u = "km" -> <<"k", "m">>
      [] u = "m" -> <<"m">> [] u = "ls" -> <<"l", "s">>

NumberChars == {"0", "1", "2", "3", "4", "5", "6", "7", "8", "9", "."}

\* t[p..q] is a number (a whole run of digits and dots) followed, after
\* optional spaces, by the unit u
Occurrence(t, p, q, u) ==
    /\ 1 <= p /\ p <= q /\ q <= Len(t)
    /\ \A k \in p..q : t[k] \in NumberChars
    /\ (p = 1 \/ t[p - 1] \notin NumberChars)
    /\ \E r \in (q + 1)..Len(t) :
          /\ \A k \in (q + 1)..(r - 1) : t[k] = " "
          /\ r + Len(UnitWord(u)) - 1 <= Len(t)
          /\ SubSeq(t, r, r + Len(UnitWord(u)) - 1) = UnitWord(u)

Units == {"Mm", "km", "m", "ls"}

\* s reads as a decimal number once a doubled point is made single: it has a
\* digit, and its points are one point or one doubled point
NumericAfterRepair(s) ==
    /\ \E k \in 1..Len(s) : s[k] # "."
    /\ \A j, k \in 1..Len(s) : (s[j] = "." /\ s[k] = "." /\ j < k) => k = j + 1

DecimalPlaces(s) ==
    Cardinality({k \in 1..Len(s) : s[k] # "." /\ \E j \in 1..k : s[j] = "."})

\* d is the number s in the unit u, in kilometres
IsKilometres(d, s, u) ==
    /\ ~d.none
    /\ d.den > 0
    /\ CASE u = "Mm" -> d.num * Pow10(DecimalPlaces(s)) = Mantissa(s, 0) * 1000 * d.den
         [] u = "km" -> d.num * Pow10(DecimalPlaces(s)) = Mantissa(s, 0) * d.den
         [] u = "m"  -> d.num * Pow10(DecimalPlaces(s)) * 1000 = Mantissa(s, 0) * d.den
         [] u = "ls" -> d.num * Pow10(DecimalPlaces(s)) = Mantissa(s, 0) * 299792 * d.den

\* the results the examples name: 7.5, 4.5, 1200 and 0.8 kilometres
ExamplesHold ==
    /\ text = <<"7", ".", "5", "k", "m">> => (~distance.none /\ 2 * distance.num = 15 * distance.den)
    /\ text = <<"4", ".", ".", "5", "k", "m">> => (~distance.none /\ 2 * distance.num = 9 * distance.den)
    /\ text = <<"1", ".", "2", "M", "m">> => (~distance.none /\ distance.num = 1200 * distance.den)
    /\ text = <<"8", "0", "0", "m">> => (~distance.none /\ 5 * distance.num = 4 * distance.den)

\* C19 as stated. Distance parsing result: when the text has an occurrence
\* of number, optional spaces, unit whose number is numeric after the repair
\* of a doubled point, parse_distance returns the value of the first such
\* occurrence in kilometres; the four named examples give 7.5, 4.5, 1200, 0.8.
C19_FirstNumericOccurrence ==
    (parse_pc = "done" /\ ocr_textlist # <<>>) =>
        /\ \A p, q \in 1..Len(text), u \in Units :
              ( /\ Occurrence(text, p, q, u)
                /\ NumericAfterRepair(SubSeq(text, p, q))
                /\ \A p2 \in 1..(p - 1), q2 \in 1..Len(text), u2 \in Units :
                      ~(Occurrence(text, p2, q2, u2)
                          /\ NumericAfterRepair(SubSeq(text, p2, q2))) )
              => IsKilometres(distance, SubSeq(text, p, q), u)
        /\ ExamplesHold

\* C19 amended. When the number of the first occurrence of number, optional
\* spaces, unit in the text is numeric after the repair of a doubled point,
\* parse_distance returns its value in kilometres; the four named examples
\* give 7.5, 4.5, 1200 and 0.8.
C19_FirstOccurrenceIfNumeric ==
    (parse_pc = "done" /\ ocr_textlist # <<>>) =>
        /\ \A p, q \in 1..Len(text), u \in Units :
              ( /\ Occurrence(text, p, q, u)
                /\ NumericAfterRepair(SubSeq(text, p, q))
                /\ \A p2 \in 1..(p - 1), q2 \in 1..Len(text), u2 \in Units :
                      ~Occurrence(text, p2, q2, u2) )
              => IsKilometres(distance, SubSeq(text, p, q), u)
        /\ ExamplesHold

\* '4..5km' was parsed to 4.5
C19_Witness ==
    /\ parse_pc = "done"
    /\ text = <<"4", ".", ".", "5", "k", "m">>
    /\ val_str = <<"4", ".", "5">>
    /\ ~distance.none
    /\ 2 * distance.num = 9 * distance.den

\* C20. Distance parsing failure: parse_distance returns None, not zero,
\* when the text has no number-unit pattern or when the number of its first
\* occurrence is not numeric after the repair ('.', '1.2.3', '4...5' before a
\* unit); get_distance_to_station returns None when the OCR gave no text.
C20_ParseFailureIsNone ==
    parse_pc = "done" =>
        /\ ocr_textlist = <<>> => distance = None
        /\ (\A p, q \in 1..Len(text), u \in Units : ~Occurrence(text, p, q, u))
             => distance = None
        /\ \A p, q \in 1..Len(text), u \in Units :
              ( /\ Occurrence(text, p, q, u)
                /\ ~NumericAfterRepair(SubSeq(text, p, q))
                /\ \A p2 \in 1..(p - 1), q2 \in 1..Len(text), u2 \in Units :
                      ~Occurrence(text, p2, q2, u2) )
              => distance = None
        /\ text \in {<<".", "k", "m">>, <<"1", ".", "2", ".", "3", "k", "m">>,
                     <<"4", ".", ".", ".", "5", "k", "m">>} => distance = None

\* '4...5km': a match whose number is still not numeric after the repair
C20_Witness ==
    /\ parse_pc = "done"
    /\ text = <<"4", ".", ".", ".", "5", "k", "m">>
    /\ val_str = <<"4", ".", ".", "5">>
    /\ distance = None

(***************************************************************************)
(* Error handling and evaluation order of the classifier, under            *)
(* SpecClassify                                                            *)
(***************************************************************************)
\* a call of the classification raised on this frame
Raised ==
    /\ cpc = "done"
    /\ \/ frame.raises \in {"target", "target_occluded"}
       \/ (frame.raises = "circle" /\ ring_calls > 0)

\* C21 as stated. Classifier fails open: when a template-match or
\* ring-detection call raises, the classification returns occluded = False.
C21_ReportsFalseOnException ==
    Raised => cret[1] = "False"

\* C21 amended. When a template-match or ring-detection call raises, the
\* classification returns (None, 0, 0, 0) instead of raising; None is not
\* False, and a caller that tests its truth, as run_live_test does, takes
\* the not-occluded branch.
C21_FailsOpenAsNone ==
    Raised => /\ cret = <<"None", 0, 0, 0>>
              /\ CallerLabel(cret[1]) = "CLEAR"

\* the ring detector raised after both template matches had run, on a frame
\* whose solid target is not visible
C21_Witness ==
    /\ cpc = "done"
    /\ frame.raises = "circle"
    /\ ring_calls = 1
    /\ occ_calls = 1
    /\ ~target_visible
    /\ cret[1] = "None"

\* C22. Failed match counts as score 0: when a matching call fails, that
\* match counts as no match with score 0 and the other checks are still
\* evaluated and decide the verdict.
C22_FailedMatchIsScoreZero ==
    LET t_hit == frame.raises # "target"
                 /\ (frame.tp1 >= frame.target_thresh \/ frame.tx3 >= frame.target_thresh)
        o_hit == frame.raises # "target_occluded"
                 /\ (frame.op1 >= frame.target_occluded_thresh
                       \/ frame.ox3 >= frame.target_occluded_thresh)
        c_hit == frame.raises # "circle" /\ frame.ring_found
    IN (cpc = "done" /\ frame.raises # "none")
         => /\ occ_calls = 1
            /\ cret[1] = IF t_hit THEN "False"
                          ELSE IF o_hit \/ c_hit THEN "True" ELSE "False"

\* C24 as stated. Veto short-circuits evaluation: when the solid-target
\* score meets its threshold neither the occluded-template match nor the
\* ring detector is evaluated; the ring detector is attempted only after the
\* occluded-template check has failed.
C24_VetoSkipsEvaluation ==
    /\ target_visible => (occ_calls = 0 /\ ring_calls = 0)
    /\ ring_calls > 0 => (occ_calls = 1 /\ ~occ_template_detected)

\* C24 amended. The veto decides the verdict, not what is evaluated: every
\* classification that returns a verdict has evaluated the occluded-template
\* match once, also with the solid target visible, and has run the ring
\* detector exactly when that match was below its threshold; with the solid
\* target visible the verdict is not occluded.
C24_VetoDecidesVerdictOnly ==
    /\ ring_calls > 0 => (occ_calls = 1 /\ ~occ_template_detected)
    /\ Classified
         => /\ occ_calls = 1
            /\ ring_calls = (IF occ_template_detected THEN 0 ELSE 1)
            /\ target_visible => (cret[1] = "False" /\ reason = "veto")

\* the solid target is visible and the ring detector was still run, and
\* found a ring
C24_Witness ==
    /\ Classified
    /\ target_visible
    /\ occ_calls = 1
    /\ ring_calls = 1
    /\ circle_found
    /\ cret[1] = "False"

(***************************************************************************)
(* Flight input and phase order of the controllers                         *)
(***************************************************************************)
\* C25. Exclusive flight input: at most one button is held at any time, no
\* button is held once a speed command, a pitch or yaw call or nav_align has
\* been issued, and none is held at a return of either controller.
C25_ExclusiveFlightInput ==
    /\ Cardinality(held) <= 1
    /\ last_cmd \notin {"PitchUpButton", "PitchDownButton"} => held = {}
    /\ (pc \in {"att_return", "done"} \/ sun_pc = "done") => held = {}
    /\ held # {} => (pc \in {"acq_loop", "acq_exit", "fly_pulse"}
                      \/ sun_pc \in {"pitch_loop", "correct", "pitch_down_hold", "fly_pulse"})

\* pitch up was released before pitch down was pressed in the correction
C25_Witness ==
    /\ sun_pc = "pitch_down_hold"
    /\ held = {"PitchDownButton"}
    /\ sun_phases = {"pitch", "correction"}

\* the names of the commands of the attempt, a key by what was done to it
CmdNames ==
    [k \in 1..Len(cmds) |->
        IF cmds[k].name = "PitchUpButton"
        THEN (IF cmds[k].arg = 1 THEN "press" ELSE "release")
        ELSE cmds[k].name]

\* the order of an attempt: g gate satisfied, y yaw drift, p star pulse
ExpectedOrder(g, y, p) ==
    <<"SetSpeed50", "press", "release">>
      \o (IF g THEN <<>> ELSE <<"yawRight", "pitchUp">>)
      \o (IF y THEN <<"yawRight">> ELSE <<>>)
      \o <<"SetSpeed100">>
      \o (IF p THEN <<"press", "release">> ELSE <<>>)
      \o <<"SetSpeed50", "pitchDown">>
      \o (IF y THEN <<"yawLeft">> ELSE <<>>)
      \o <<"nav_align">>

IsPrefix(a, b) == Len(a) <= Len(b) /\ \A k \in 1..Len(a) : a[k] = b[k]

\* C26. Strict phase order: the commands of an attempt are issued in the
\* order SetSpeed50, acquisition press and release, fallback (gate failed),
\* yaw drift (if any), SetSpeed100, fly-away, SetSpeed50, pitchDown, yaw
\* reversal (if any), nav_align, then the occlusion re-check; what follows
\* the acquisition is issued only after the gate was satisfied or the
\* timeout passed, and what follows the fly-away only after its duration.
C26_StrictPhaseOrder ==
    /\ \E g, p \in BOOLEAN : IsPrefix(CmdNames, ExpectedOrder(g, att.yaw > 0, p))
    /\ pc \in {"verify", "verify2", "verdict"}
         => \E p \in BOOLEAN :
               /\ Len(CmdNames) = Len(ExpectedOrder(gate_satisfied, att.yaw > 0, p))
               /\ IsPrefix(CmdNames, ExpectedOrder(gate_satisfied, att.yaw > 0, p))
    /\ Len(cmds) >= 3
         => (gate_satisfied
              \/ pitched >= config.SupercruiseAvoidanceEscapeHeadingTimeoutSeconds)
    /\ pc = "pitch_back" => fly_elapsed >= 2 * att.duration
    /\ occ_reads > 0 => (cmds = <<>> \/ cmds[Len(cmds)].name = "nav_align")

\* an attempt with every phase: fallback, yaw drift, a star pulse, reversal
C26_Witness ==
    /\ pc = "verdict"
    /\ ~gate_satisfied
    /\ att.yaw > 0
    /\ Len(cmds) = 13
    /\ cmds[8] = Cmd("PitchUpButton", 1)

\* C27. Fallback heading: in an attempt the fallback runs exactly when the
\* acquisition returned success = False, once, as yawRight(180) followed by
\* pitchUp(45); the acquisition is made once, and the attempt goes on to the
\* fly-away.
C27_FallbackHeading ==
    pc \in {"yaw", "fly_start", "fly_loop", "fly_pulse", "fly_intd", "pitch_back",
            "pitch_down", "yaw_back", "align", "verify", "verify2", "verdict"}
      => LET ups == {k \in 1..Len(cmds) : cmds[k].name = "pitchUp"}
             fly == {k \in 1..Len(cmds) : cmds[k].name = "SetSpeed100"}
             n == IF gate_satisfied THEN 3 ELSE 5
         IN  /\ cmds[2] = Cmd("PitchUpButton", 1)
             /\ cmds[3] = Cmd("PitchUpButton", 0)
             /\ gate_satisfied => ups = {}
             /\ ~gate_satisfied => /\ ups = {5}
                                   /\ cmds[4] = Cmd("yawRight", 360)
                                   /\ cmds[5] = Cmd("pitchUp", 450)
             /\ \A k \in (n + 1)..Len(cmds) :
                   cmds[k].name = "yawRight" => cmds[k].arg = att.yaw
             /\ pc \notin {"yaw", "fly_start"}
                  => fly = {n + (IF att.yaw > 0 THEN 2 ELSE 1)}

\* the gate timed out, the fallback ran and the fly-away is under way
C27_Witness ==
    /\ pc = "fly_loop"
    /\ fly_elapsed > 0
    /\ ~gate_satisfied
    /\ pitched >= config.SupercruiseAvoidanceEscapeHeadingTimeoutSeconds
    /\ cmds[4].name = "yawRight"
    /\ cmds[5].name = "pitchUp"

\* the degrees of the calls of one name in the attempt, added up
RECURSIVE SumArgs(_, _)
SumArgs(s, n) ==
    IF Len(s) = 0 THEN 0
    ELSE (IF s[1].name = n THEN s[1].arg ELSE 0) + SumArgs(Tail(s), n)

\* C28. Pitch-back amount: in an attempt that reached the pitch back, the
\* degrees given to pitchDown are the time spent pitching up in the
\* acquisition times pitch_rate (10 when it is not positive), whether the
\* gate was satisfied or the fallback ran.
C28_PitchBackAmount ==
    pc \in {"yaw_back", "align", "verify", "verify2", "verdict"}
      => /\ pitch_rate > 0
         /\ SumArgs(cmds, "pitchDown") = pitched * pitch_rate

\* C29 as stated. Yaw reversal: in an attempt that completed its fly-away,
\* the degrees of yawRight commanded equal the degrees of yawLeft commanded.
C29_YawRightEqualsYawLeft ==
    pc \in {"align", "verify", "verify2", "verdict"}
      => SumArgs(cmds, "yawRight") = SumArgs(cmds, "yawLeft")

\* C29 amended. In an attempt that completed its fly-away the yaw drift, and
\* only it, is reversed: yawLeft is commanded for the drift when the drift is
\* positive and not at all otherwise; the yawRight(180) of the fallback is
\* not reversed.
C29_YawDriftReversed ==
    pc \in {"align", "verify", "verify2", "verdict"}
      => /\ SumArgs(cmds, "yawLeft") = (IF att.yaw > 0 THEN att.yaw ELSE 0)
         /\ SumArgs(cmds, "yawRight")
              = SumArgs(cmds, "yawLeft") + (IF gate_satisfied THEN 0 ELSE 360)
         /\ att.yaw <= 0 => \A k \in 1..Len(cmds) : cmds[k].name # "yawLeft"

\* a retry with drift after a failed gate: the drift is reversed, the 180 is not
C29_Witness ==
    /\ pc = "verdict"
    /\ att.yaw > 0
    /\ ~gate_satisfied
    /\ SumArgs(cmds, "yawLeft") = att.yaw
    /\ SumArgs(cmds, "yawRight") = att.yaw + 360

\* C30. Verify debounce: after nav_align the occlusion is read once, and a
\* second time only if the first reading was occluded; the attempt returns
\* False exactly when both readings were occluded; at most two readings.
C30_VerifyDebounce ==
    /\ occ_reads <= 2
    /\ pc = "verify" => occ_reads = 0
    /\ pc = "verify2" => (occ_reads = 1 /\ occluded)
    /\ pc = "verdict" => (occ_reads \in {1, 2} /\ (occ_reads = 1 => ~occluded))
    /\ (pc = "att_return" /\ ~interdicted)
         => /\ occ_reads \in {1, 2}
            /\ occ_reads = 1 => ~occluded
            /\ att_ret = ~(occ_reads = 2 /\ occluded)

\* the first reading was occluded, the second clear: the attempt succeeded
C30_Witness ==
    /\ pc = "att_return"
    /\ ~interdicted
    /\ occ_reads = 2
    /\ ~occluded
    /\ att_ret

\* C31: the hard escape is run with a fly-away of HardEscapeSeconds, neither
\* capped by DurationMax nor derived from DurationBase, and a yaw drift of 1.5
\* times the yaw increment (att.yaw is in half degrees, fly_elapsed in half
\* seconds); the fly-away lasts that long and the drift is what yawRight gets
C31_HardEscapeParameters ==
    att.hard =>
        /\ att.duration = config.SupercruiseAvoidanceHardEscapeSeconds
        /\ 2 * att.yaw = 3 * (2 * config.SupercruiseAvoidanceYawDegrees)
        /\ att.idx = 99
        /\ (pc = "pitch_back" =>
               /\ fly_elapsed >= 2 * config.SupercruiseAvoidanceHardEscapeSeconds
               /\ (att.yaw > 0 =>
                      \E k \in 1..Len(cmds) : cmds[k] = Cmd("yawRight", att.yaw)))

C31_Witness ==
    /\ att.hard
    /\ pc = "pitch_back"
    /\ config.SupercruiseAvoidanceHardEscapeSeconds > config.SupercruiseAvoidanceDurationMax
    /\ config.SupercruiseAvoidanceHardEscapeSeconds # config.SupercruiseAvoidanceDurationBase
    /\ config.SupercruiseAvoidanceYawDegrees > 0
    /\ n_std > 0

\* one step of the fly-away loop's star check, seen as a pair of states
StarPulsePress == pc = "fly_loop" /\ pc' = "fly_pulse"

HasCmd(c) == \E k \in 1..Len(cmds) : cmds[k] = c

C37_RecoveryUnreachable ==
    [][/\ ~maneuver_aborted
       /\ ~maneuver_aborted'
       /\ ~(pc = "fly_loop" /\ pc' = "att_return")
       /\ (pc # "att_return" /\ pc' = "att_return" /\ ~att_ret') =>
              /\ pc = "verdict"
              /\ occluded
              /\ occ_reads > 0
              /\ last_cmd = "nav_align"
      ]_vars

C37_Witness ==
    /\ pc = "pitch_back"
    /\ HasCmd(Cmd("PitchUpButton", 0))
    /\ ~maneuver_aborted
    /\ n_fail > 0

\* C39: 'Obstruction cleared' is sent only when the last occlusion re-check of
\* a standard attempt read not occluded, never after an attempt that ended by
\* interdiction or made no occlusion re-check
C39_ClearedOnlyAfterRecheck ==
    last_note = "Obstruction cleared" =>
        /\ ~att.hard
        /\ occ_reads > 0
        /\ ~occluded
        /\ ~interdicted

\* C40: with the clock advancing, execute terminates whatever the readings and
\* interrupts: the acquisition loop is left with the gate satisfied or the
\* timeout passed, the fly-away loop is left after its duration or by
\* interdiction, and at most max_attempts + 1 attempts are made
C40_ExecuteTerminates ==
    /\ <>(pc = "done")
    /\ [](pc = "acq_exit" =>
            \/ gate_satisfied
            \/ acq_elapsed >= config.SupercruiseAvoidanceEscapeHeadingTimeoutSeconds)
    /\ [](pc = "pitch_back" => fly_elapsed >= 2 * att.duration)
    /\ []((pc = "att_return" /\ occ_reads = 0) => interdicted)
    /\ [](n_std + n_hard <= config.SupercruiseAvoidanceMaxAttempts + 1)

\* the longest run: every standard attempt failed and the hard escape was flown
C40_Witness ==
    /\ pc = "done"
    /\ config.SupercruiseAvoidanceMaxAttempts = MaxAttemptsCfg
    /\ n_std = MaxAttemptsCfg
    /\ n_hard = 1
    /\ last_note = "Avoidance Sequence Complete"

\* what phase 2 of an attempt leaves in cmds: the slow-down, the acquisition's
\* press and release, and the fallback's yaw and pitch when the gate failed
PhaseTwoCmds ==
    <<Cmd("SetSpeed50", 0), Cmd("PitchUpButton", 1), Cmd("PitchUpButton", 0)>>
    \o (IF gate_satisfied
        THEN <<>>
        ELSE <<Cmd("yawRight", FallbackYaw), Cmd("pitchUp", FallbackPitch)>>)

SunFlyPcs == {"fly_loop", "fly_sun", "fly_pulse"}

SunPulsePress == sun_pc = "fly_sun" /\ sun_pc' = "fly_pulse"

\* C33: in the sun fly-away loop a reading above 5 percent presses
\* PitchUpButton once and releases it a second later, and does nothing else:
\* the speed and the phases are as before, the pitch-away phase is not entered
\* again, the avoidance clock is not set back, and the loop ends, by the
\* configured duration unless interdicted
C33_SunRedetectPulse ==
    /\ [][/\ SunPulsePress =>
                 /\ held = {}
                 /\ held' = {"PitchUpButton"}
                 /\ avoid_elapsed' = avoid_elapsed
          /\ sun_pc = "fly_pulse" =>
                 /\ held = {"PitchUpButton"}
                 /\ held' = {}
                 /\ sun_pc' = "fly_loop"
                 /\ avoid_elapsed' > avoid_elapsed
          /\ (sun_pc = "fly_loop" \/ (sun_pc = "fly_sun" /\ ~SunPulsePress)) =>
                 held' = held
          /\ sun_pc \in {"fly_sun", "fly_pulse"} =>
                 /\ sun_pc' \in SunFlyPcs
                 /\ avoid_elapsed' >= avoid_elapsed
                 /\ speed' = "SetSpeed100"
                 /\ sun_phases' = sun_phases
                 /\ sun_cfg' = sun_cfg
          /\ sun_pc \in SunFlyPcs => sun_pc' \in SunFlyPcs \cup {"done"}
         ]_vars
    /\ (sun_pc = "fly_pulse") ~> (sun_pc = "done")
    /\ []((sun_pc = "done" /\ "fly" \in sun_phases /\ ~interdicted) =>
             avoid_elapsed >= 2 * sun_cfg.SunAvoidanceDuration)

\* the loop is about to end by its duration right after a pulse
C33_Witness ==
    /\ sun_pc = "fly_loop"
    /\ sun_cfg.sunpitchuptime >= 0
    /\ last_cmd = "PitchUpButton"
    /\ held = {}
    /\ sun_cfg.SunAvoidanceDuration > 0
    /\ avoid_elapsed >= 2 * sun_cfg.SunAvoidanceDuration

\* C34: a run of SunAvoidance.execute that was triggered returns True, and
\* when the fly-away loop ends by its duration the run ends with SetSpeed50,
\* sent at full speed (after SetSpeed100) with every pitch key released, as
\* the last flight command
C34_SunCompletion ==
    [][/\ (sun_pc' = "done" /\ sun_phases' # {}) => sun_result' = "True"
       /\ (sun_pc = "fly_loop" /\ sun_pc' = "done" /\ ~interdicted') =>
              /\ avoid_elapsed >= 2 * sun_cfg.SunAvoidanceDuration
              /\ speed = "SetSpeed100"
              /\ held = {}
              /\ last_cmd' = "SetSpeed50"
              /\ speed' = "SetSpeed50"
              /\ held' = {}
              /\ last_note' = "Sun avoidance complete"
       /\ sun_pc = "done" => (last_cmd' = last_cmd /\ speed' = speed /\ held' = held)
      ]_vars

\* the run ended by its duration, which a corrective pulse had overshot
C34_Witness ==
    /\ sun_pc = "done"
    /\ sun_result = "True"
    /\ last_note = "Sun avoidance complete"
    /\ last_cmd = "SetSpeed50"
    /\ sun_cfg.SunAvoidanceDuration > 0
    /\ avoid_elapsed > 2 * sun_cfg.SunAvoidanceDuration

\* C35: after the pitch loop PitchUpButton is released once; PitchDownButton
\* is pressed, and then released, exactly when sunpitchuptime is negative, and
\* only with PitchUpButton released; with a positive or zero value the
\* correction sends no PitchDownButton command
C35_ShipCorrection ==
    [][/\ sun_pc = "correct" =>
              /\ held = {"PitchUpButton"}
              /\ held' = {}
              /\ last_cmd' = "PitchUpButton"
       /\ ("PitchDownButton" \in held' /\ "PitchDownButton" \notin held) =>
              /\ sun_cfg.sunpitchuptime < 0
              /\ held = {}
              /\ "correction" \in sun_phases
       /\ "PitchDownButton" \in held =>
              /\ held' = {}
              /\ last_cmd' = "PitchDownButton"
       /\ sun_pc \in {"pitch_down", "pitch_down_hold", "fly_start"} =>
              /\ "PitchUpButton" \notin held
              /\ last_cmd' # "PitchUpButton"
       /\ (sun_pc # "fly_start" /\ sun_pc' = "fly_start") =>
              /\ held' = {}
              /\ last_cmd' = IF sun_cfg.sunpitchuptime < 0
                             THEN "PitchDownButton" ELSE "PitchUpButton"
      ]_vars

C35_Witness ==
    /\ sun_pc = "fly_start"
    /\ sun_cfg.sunpitchuptime < 0
    /\ last_cmd = "PitchDownButton"
    /\ held = {}
    /\ sun_phases = {"pitch", "correction"}

\* C36: from every recognized current tab navigate_to_tab(Contacts) leaves the
\* panel on the Contacts tab, so that the UI_Up of request_docking and of
\* get_distance_to_station goes to the Contacts tab
C36_ReachesContacts ==
    (target_tab = contacts_tab_text /\ img_selected /\ tab_text = start_tab) =>
        /\ tab_pc = "arrived" => panel = contacts_tab_text
        /\ acted_on # "" => acted_on = contacts_tab_text

=============================================================================
